---- MODULE Spec2Model ----
(***************************************************************************)
(* A model of WgpuRenderGraphRunner (pipelined/bevy_wgpu2/src/             *)
(* render_graph_runner.rs): run, and run_graph with its recursion into     *)
(* sub-graphs, as a state machine over an explicit call stack.             *)
(*                                                                         *)
(* Slot and edge indices are 0-based as in the source; TLA+ sequences are  *)
(* 1-based, so position i of a vector is element i + 1 of its sequence.    *)
(* A VecDeque is a sequence whose element 1 is the front and whose last    *)
(* element is the back.                                                    *)
(***************************************************************************)
EXTENDS Integers, Sequences, FiniteSets, TLC

\* Bounds of the model.
FreeNodes == 3
MaxRequests == 2
\* The longest log of a first run after which run is called again.
MaxReplay == 12
\* The most cameras added to a ComputePassNode.
MaxCameras == 2
\* The most frames a ComputePassNode is prepared for.
MaxFrames == 2

None == "None"

(***************************************************************************)
(* Slot values                                                             *)
(***************************************************************************)
Entity5 == [ty |-> "Entity", id |-> 5]
Buffer42 == [ty |-> "Buffer", id |-> 42]
SlotValues == {Entity5, Buffer42}
\* An output slot nobody wrote (Option::None in the outputs array).
Unset == [ty |-> "Unset", id |-> 0]

slot_type(value) == value.ty

(***************************************************************************)
(* Graph data: slots, edges, node states, graphs                           *)
(***************************************************************************)
SlotInfo(name, ty) == [name |-> name, slot_type |-> ty]

SlotEdge(output_node, output_index, input_node, input_index) ==
    [kind |-> "SlotEdge", output_node |-> output_node, output_index |-> output_index,
     input_node |-> input_node, input_index |-> input_index]

NodeEdge(output_node, input_node) ==
    [kind |-> "NodeEdge", output_node |-> output_node, output_index |-> 0,
     input_node |-> input_node, input_index |-> 0]

RunSubGraph(name, inputs) == [name |-> name, inputs |-> inputs]

\* Every way a node's run can leave an outputs array of n slots.
AnyWrites(n) == [1..n -> SlotValues \cup {Unset}]

\* A node of a graph together with what its implementation may do when run:
\* fail or not, the outputs arrays it may leave, the sub-graph runs it may ask for.
NodeState(id, input_slots, output_slots, may_fail, writes, may_request) ==
    [id |-> id, type_name |-> id, input_slots |-> input_slots,
     output_slots |-> output_slots, may_fail |-> may_fail, writes |-> writes,
     may_request |-> may_request]

RenderGraph(nodes, edges, input_node, sub_graphs) ==
    [nodes |-> nodes, edges |-> edges, input_node |-> input_node,
     sub_graphs |-> sub_graphs]

NoSlots == << >>
OneEntity == << SlotInfo("in", "Entity") >>
OneBuffer == << SlotInfo("in", "Buffer") >>
OutEntity == << SlotInfo("out", "Entity") >>
NoSubGraphs == << >>

FreeNames == << "n1", "n2", "n3", "n4", "n5" >>
FreeIds == { FreeNames[i] : i \in 1..FreeNodes }

\* The graphs the runner is driven against.
Catalogue ==
    \* P -> Q -> R over slot edges
    ("chain" :> RenderGraph(
        ("P" :> NodeState("P", NoSlots, OutEntity, TRUE, AnyWrites(1), {}))
     @@ ("Q" :> NodeState("Q", OneEntity, OutEntity, TRUE, AnyWrites(1), {}))
     @@ ("R" :> NodeState("R", OneEntity, NoSlots, FALSE, AnyWrites(0), {})),
        << SlotEdge("P", 0, "Q", 0), SlotEdge("Q", 0, "R", 0) >>,
        None, NoSubGraphs))
    \* A -> B, A -> C, B -> D, C -> D over slot edges
 @@ ("diamond" :> RenderGraph(
        ("A" :> NodeState("A", NoSlots,
                          << SlotInfo("left", "Entity"), SlotInfo("right", "Buffer") >>,
                          FALSE, AnyWrites(2), {}))
     @@ ("B" :> NodeState("B", OneEntity, OutEntity, FALSE, AnyWrites(1), {}))
     @@ ("C" :> NodeState("C", OneBuffer, OutEntity, TRUE, AnyWrites(1), {}))
     @@ ("D" :> NodeState("D", << SlotInfo("b", "Entity"), SlotInfo("c", "Entity") >>,
                          NoSlots, FALSE, AnyWrites(0), {})),
        << SlotEdge("A", 1, "C", 0), SlotEdge("A", 0, "B", 0),
           SlotEdge("C", 0, "D", 1), SlotEdge("B", 0, "D", 0) >>,
        None, NoSubGraphs))
    \* A -> D and A -> B -> D: D is queued before B has run
 @@ ("skew" :> RenderGraph(
        ("A" :> NodeState("A", NoSlots, OutEntity, FALSE, {<< Entity5 >>, << Buffer42 >>}, {}))
     @@ ("B" :> NodeState("B", OneEntity, OutEntity, FALSE, AnyWrites(1), {}))
     @@ ("D" :> NodeState("D", << SlotInfo("b", "Entity"), SlotInfo("a", "Entity") >>,
                          NoSlots, FALSE, AnyWrites(0), {})),
        << SlotEdge("A", 0, "D", 1), SlotEdge("A", 0, "B", 0),
           SlotEdge("B", 0, "D", 0) >>,
        None, NoSubGraphs))
    \* N asks for sub-graphs S and T; M consumes N's output; main also owns a
    \* sub-graph named U, which is another graph than the U owned by S
 @@ ("main" :> RenderGraph(
        ("N" :> NodeState("N", NoSlots, OutEntity, TRUE, AnyWrites(1),
                          { RunSubGraph("S", << Buffer42 >>),
                            RunSubGraph("S", << >>),
                            RunSubGraph("T", << Entity5, Buffer42 >>),
                            RunSubGraph("T", << Entity5, Buffer42, Buffer42 >>),
                            RunSubGraph("T", << Buffer42 >>),
                            RunSubGraph("T", << Buffer42, Entity5 >>),
                            RunSubGraph("T", << Entity5 >>) }))
     @@ ("M" :> NodeState("M", OneEntity, NoSlots, FALSE, AnyWrites(0), {})),
        << SlotEdge("N", 0, "M", 0) >>,
        None, ("S" :> "sub_s") @@ ("T" :> "sub_t") @@ ("U" :> "sub_v")))
    \* S: an input node with one Buffer slot, X fed by it, Y without inputs
 @@ ("sub_s" :> RenderGraph(
        ("I" :> NodeState("I", OneBuffer, OneBuffer, FALSE, {}, {}))
     @@ ("X" :> NodeState("X", OneBuffer, OutEntity, TRUE,
                          {<< Entity5 >>, << Unset >>}, {}))
     @@ ("Y" :> NodeState("Y", NoSlots, NoSlots, TRUE, AnyWrites(0),
                          { RunSubGraph("U", << Entity5 >>) })),
        << SlotEdge("I", 0, "X", 0) >>,
        "I", ("U" :> "sub_u")))
    \* U: no input node
 @@ ("sub_u" :> RenderGraph(
        ("Z" :> NodeState("Z", NoSlots, OutEntity, TRUE, {<< Entity5 >>}, {})),
        << >>, None, NoSubGraphs))
    \* the U owned by main: no input node
 @@ ("sub_v" :> RenderGraph(
        ("V" :> NodeState("V", NoSlots, NoSlots, FALSE, AnyWrites(0), {})),
        << >>, None, NoSubGraphs))
    \* T: an input node with an Entity and a Buffer slot, K fed by both
 @@ ("sub_t" :> RenderGraph(
        ("J" :> NodeState("J", << SlotInfo("e", "Entity"), SlotInfo("b", "Buffer") >>,
                          << SlotInfo("e", "Entity"), SlotInfo("b", "Buffer") >>,
                          FALSE, {}, {}))
     @@ ("K" :> NodeState("K", << SlotInfo("e", "Entity"), SlotInfo("b", "Buffer") >>,
                          NoSlots, FALSE, AnyWrites(0), {})),
        << SlotEdge("J", 1, "K", 1), SlotEdge("J", 0, "K", 0) >>,
        "J", NoSubGraphs))
    \* a root graph whose input node declares a slot
 @@ ("rootin" :> RenderGraph(
        ("I0" :> NodeState("I0", OneEntity, OneEntity, FALSE, {}, {}))
     @@ ("F" :> NodeState("F", OneEntity, NoSlots, FALSE, AnyWrites(0), {}))
     @@ ("G" :> NodeState("G", NoSlots, NoSlots, FALSE, AnyWrites(0), {})),
        << SlotEdge("I0", 0, "F", 0) >>,
        "I0", NoSubGraphs))
    \* a root graph whose input node declares no slot: it is seeded like any node
    \* without input slots
 @@ ("rootzero" :> RenderGraph(
        ("I6" :> NodeState("I6", NoSlots, NoSlots, FALSE, {}, {}))
     @@ ("F6" :> NodeState("F6", NoSlots, NoSlots, FALSE, AnyWrites(0), {})),
        << NodeEdge("I6", "F6") >>,
        "I6", NoSubGraphs))
    \* Y waits for X, which declares an input nothing feeds and is never queued
 @@ ("stuck" :> RenderGraph(
        ("X1" :> NodeState("X1", OneEntity, NoSlots, FALSE, AnyWrites(0), {}))
     @@ ("Y1" :> NodeState("Y1", NoSlots, NoSlots, FALSE, AnyWrites(0), {}))
     @@ ("W1" :> NodeState("W1", NoSlots, NoSlots, FALSE, AnyWrites(0), {})),
        << NodeEdge("X1", "Y1") >>,
        None, NoSubGraphs))
    \* X2 declares an input nothing feeds and nothing points at it
 @@ ("orphan" :> RenderGraph(
        ("A2" :> NodeState("A2", NoSlots, NoSlots, FALSE, AnyWrites(0), {}))
     @@ ("X2" :> NodeState("X2", OneEntity, NoSlots, FALSE, AnyWrites(0), {})),
        << >>, None, NoSubGraphs))
    \* X3 declares an input nothing feeds and is queued as A3's successor
 @@ ("unfed" :> RenderGraph(
        ("A3" :> NodeState("A3", NoSlots, NoSlots, FALSE, AnyWrites(0), {}))
     @@ ("X3" :> NodeState("X3", OneEntity, NoSlots, FALSE, AnyWrites(0), {})),
        << NodeEdge("A3", "X3") >>,
        None, NoSubGraphs))
    \* C4 takes A4's output over a slot edge and waits for B4 over a node edge
 @@ ("mixed" :> RenderGraph(
        ("A4" :> NodeState("A4", NoSlots, OutEntity, FALSE, {<< Entity5 >>}, {}))
     @@ ("B4" :> NodeState("B4", NoSlots, << SlotInfo("out", "Buffer") >>, FALSE,
                           {<< Buffer42 >>}, {}))
     @@ ("C4" :> NodeState("C4", OneEntity, NoSlots, FALSE, AnyWrites(0), {})),
        << NodeEdge("B4", "C4"), SlotEdge("A4", 0, "C4", 0) >>,
        None, NoSubGraphs))
    \* FreeNodes nodes without slots, of which n2 may fail; the node edges are chosen
    \* in Init
 @@ ("free" :> RenderGraph(
        [ n \in FreeIds |-> NodeState(n, NoSlots, NoSlots, n = "n2", AnyWrites(0), {}) ],
        << >>, None, NoSubGraphs))

GraphIds == DOMAIN Catalogue
RootGraphs == GraphIds \ {"sub_s", "sub_u", "sub_t", "sub_v"}

(***************************************************************************)
(* State                                                                   *)
(***************************************************************************)
VARIABLES
    root,        \* the graph handed to run
    free_edges,  \* the edges of the graph "free"
    seed_order,  \* per graph, the order in which iter_nodes yields its slot-less nodes
    run_state,   \* where run is: "init", "called" (inside run_graph), "done"
    stack,       \* the active run_graph invocations, the innermost last
    ret,         \* the value a run_graph invocation has just returned
    result,      \* what run returned
    submitted,   \* how many times queue.submit was called
    log,         \* the begin and end of each run_graph invocation and each node run
    first_run,   \* the log and the result of the first run, once run is called again
    pass_node,   \* a ComputePassNode: its fields
    world,       \* the resources of the World a ComputePassNode reads
    compute_pass,\* what update recorded into the render context since the last prepare
    calls        \* the calls made on the ComputePassNode so far

\* the state of the runner and the state of the compute node
runner_vars == << root, free_edges, seed_order, run_state, stack, ret, result, submitted,
                  log, first_run >>
compute_vars == << pass_node, world, compute_pass, calls >>
vars == << runner_vars, compute_vars >>

\* The graph named g.
Graph(g) ==
    IF g = "free" THEN [Catalogue[g] EXCEPT !.edges = free_edges] ELSE Catalogue[g]

\* A graph and the sub-graphs nested in it.
RECURSIVE Nested(_)
Nested(g) ==
    {g} \cup UNION { Nested(Catalogue[g].sub_graphs[n]) : n \in DOMAIN Catalogue[g].sub_graphs }

\* graph.get_sub_graph(name)
get_sub_graph(g, name) == Graph(g).sub_graphs[name]

\* graph.iter_node_inputs(id): the edges into id, in the order they were added
iter_node_inputs(g, id) ==
    LET Into(e) == e.input_node = id IN SelectSeq(Graph(g).edges, Into)

\* graph.iter_node_outputs(id): the edges out of id, in the order they were added
iter_node_outputs(g, id) ==
    LET OutOf(e) == e.output_node = id IN SelectSeq(Graph(g).edges, OutOf)

(***************************************************************************)
(* Results and errors                                                      *)
(***************************************************************************)
NoResult ==
    [kind |-> "None", node |-> None, slot_index |-> 0, slot_name |-> None,
     graph_name |-> None, expected |-> None, actual |-> None]

OkResult == [NoResult EXCEPT !.kind = "Ok"]

NodeRunError(type_name) ==
    [NoResult EXCEPT !.kind = "NodeRunError", !.node = type_name]

EmptyNodeOutputSlot(type_name, slot_index, slot_name) ==
    [NoResult EXCEPT !.kind = "EmptyNodeOutputSlot", !.node = type_name,
                     !.slot_index = slot_index, !.slot_name = slot_name]

MissingInput(slot_index, slot_name, graph_name) ==
    [NoResult EXCEPT !.kind = "MissingInput", !.slot_index = slot_index,
                     !.slot_name = slot_name, !.graph_name = graph_name]

MismatchedInputSlotType(slot_index, label, expected, actual) ==
    [NoResult EXCEPT !.kind = "MismatchedInputSlotType", !.slot_index = slot_index,
                     !.slot_name = label, !.expected = expected, !.actual = actual]

\* assert_eq! failed: the thread panics
Panic == [NoResult EXCEPT !.kind = "Panic"]

ErrorKinds == {"NodeRunError", "EmptyNodeOutputSlot", "MissingInput",
               "MismatchedInputSlotType"}

IsErr(r) == r.kind \in ErrorKinds

(***************************************************************************)
(* HashMap<NodeId, SmallVec<SlotValue>> as a set of <<key, value>> pairs    *)
(***************************************************************************)
EmptyMap == {}
contains_key(map, k) == \E e \in map : e[1] = k
get(map, k) == (CHOOSE e \in map : e[1] = k)[2]
insert(map, k, v) == { e \in map : e[1] # k } \cup { << k, v >> }
Keys(map) == { e[1] : e \in map }

(***************************************************************************)
(* VecDeque                                                                *)
(***************************************************************************)
push_front(queue, x) == << x >> \o queue
back(queue) == queue[Len(queue)]
without_back(queue) == SubSeq(queue, 1, Len(queue) - 1)

\* for (_, node_state) in edges { node_queue.push_front(node_state) }
RECURSIVE PushFrontAll(_, _)
PushFrontAll(queue, edges) ==
    IF edges = << >> THEN queue
    ELSE PushFrontAll(push_front(queue, Head(edges).input_node), Tail(edges))

(***************************************************************************)
(* One run_graph invocation                                                *)
(***************************************************************************)
\* render_context is the render context the invocation was handed: the one its
\* nodes record into.
Frame(g, graph_name, render_context, inputs) ==
    [graph |-> g, graph_name |-> graph_name, render_context |-> render_context,
     inputs |-> inputs, pc |-> "seed",
     node_outputs |-> EmptyMap, node_queue |-> << >>, node_state |-> None,
     node_inputs |-> << >>, outputs |-> << >>, run_sub_graphs |-> << >>]

Depth == Len(stack)
Top == stack[Depth]
SetTop(f) == [stack EXCEPT ![Depth] = f]
Popped == SubSeq(stack, 1, Depth - 1)
NodeOf(f) == Graph(f.graph).nodes[f.node_state]

\* An entry of the log: the begin or the end of a run_graph invocation (its graph,
\* graph_name and inputs), or a node's run (its inputs, the outputs array it left,
\* the sub-graph runs it asked for, whether it returned Ok).
Event(ev, g, name, node, depth, inputs, outputs, requests, ok) ==
    [ev |-> ev, graph |-> g, name |-> name, node |-> node, depth |-> depth,
     inputs |-> inputs, outputs |-> outputs, requests |-> requests, ok |-> ok]

Running == run_state = "called" /\ Depth > 0 /\ ret.kind = "None"
At(pc) == Running /\ Top.pc = pc

\* return Err(err) out of the innermost invocation
ReturnErr(err) ==
    /\ stack' = Popped
    /\ ret' = err

\* ValidateInputs without the comparison of the slot types.
RECURSIVE ValidateInputsUntyped(_, _, _, _)
ValidateInputsUntyped(i, input_slots, inputs, graph_name) ==
    IF i >= Len(input_slots) THEN OkResult
    ELSE IF i < Len(inputs)
         THEN ValidateInputsUntyped(i + 1, input_slots, inputs, graph_name)
         ELSE MissingInput(i, input_slots[i + 1].name, graph_name)

\* ValidateInputs refusing a supplied value that no declared slot takes.
RECURSIVE ValidateInputsRejectsSurplus(_, _, _, _)
ValidateInputsRejectsSurplus(i, input_slots, inputs, graph_name) ==
    IF i >= Len(input_slots)
    THEN IF i < Len(inputs)
         THEN MismatchedInputSlotType(i, None, None, slot_type(inputs[i + 1]))
         ELSE OkResult
    ELSE IF i < Len(inputs)
         THEN IF input_slots[i + 1].slot_type # slot_type(inputs[i + 1])
              THEN MismatchedInputSlotType(i, input_slots[i + 1].name,
                                           input_slots[i + 1].slot_type,
                                           slot_type(inputs[i + 1]))
              ELSE ValidateInputsRejectsSurplus(i + 1, input_slots, inputs, graph_name)
         ELSE MissingInput(i, input_slots[i + 1].name, graph_name)

\* ValidateInputs comparing the number of supplied values with the number of slots
\* before it looks at any type.
RECURSIVE ValidateInputsMissingFirst(_, _, _, _)
ValidateInputsMissingFirst(i, input_slots, inputs, graph_name) ==
    IF Len(inputs) < Len(input_slots)
    THEN MissingInput(Len(inputs), input_slots[Len(inputs) + 1].name, graph_name)
    ELSE IF i >= Len(input_slots) THEN OkResult
    ELSE IF input_slots[i + 1].slot_type # slot_type(inputs[i + 1])
         THEN MismatchedInputSlotType(i, input_slots[i + 1].name,
                                      input_slots[i + 1].slot_type,
                                      slot_type(inputs[i + 1]))
         ELSE ValidateInputsMissingFirst(i + 1, input_slots, inputs, graph_name)

\* ValidateInputs reporting a missing input under the graph name None.
RECURSIVE ValidateInputsUnnamed(_, _, _, _)
ValidateInputsUnnamed(i, input_slots, inputs, graph_name) ==
    IF i >= Len(input_slots) THEN OkResult
    ELSE IF i < Len(inputs)
         THEN IF input_slots[i + 1].slot_type # slot_type(inputs[i + 1])
              THEN MismatchedInputSlotType(i, input_slots[i + 1].name,
                                           input_slots[i + 1].slot_type,
                                           slot_type(inputs[i + 1]))
              ELSE ValidateInputsUnnamed(i + 1, input_slots, inputs, graph_name)
         ELSE MissingInput(i, input_slots[i + 1].name, None)

\* The first declared input slot, from index i on, that has no supplied value or a
\* value of another type; OkResult when there is none.
RECURSIVE ValidateInputs(_, _, _, _)
ValidateInputs(i, input_slots, inputs, graph_name) ==
    IF i >= Len(input_slots) THEN OkResult
    ELSE IF i < Len(inputs)
         THEN IF input_slots[i + 1].slot_type # slot_type(inputs[i + 1])
              THEN MismatchedInputSlotType(i, input_slots[i + 1].name,
                                           input_slots[i + 1].slot_type,
                                           slot_type(inputs[i + 1]))
              ELSE ValidateInputs(i + 1, input_slots, inputs, graph_name)
         ELSE MissingInput(i, input_slots[i + 1].name, graph_name)

\* What the seed stage finds in the supplied inputs.
SeedCheck(f) ==
    IF Graph(f.graph).input_node = None THEN OkResult
    ELSE ValidateInputs(0, Graph(f.graph).nodes[Graph(f.graph).input_node].input_slots,
                        f.inputs, f.graph_name)

\* Seeded recording every supplied input, not just one per declared slot.
SeededAllInputs(f) ==
    LET g == Graph(f.graph)
        queue == seed_order[f.graph]
    IN  IF g.input_node = None
        THEN [f EXCEPT !.pc = "pop", !.node_queue = queue]
        ELSE LET input_node == g.nodes[g.input_node]
             IN  [f EXCEPT !.pc = "pop",
                           !.node_outputs = insert(EmptyMap, input_node.id, f.inputs),
                           !.node_queue =
                               PushFrontAll(queue, iter_node_outputs(f.graph, input_node.id))]

\* Seeded queueing every node of the graph, whether or not it declares input slots.
SeededEveryNode(f) ==
    LET g == Graph(f.graph)
        others == { n \in DOMAIN g.nodes :
                      n # g.input_node /\ g.nodes[n].input_slots # << >> }
        rest == CHOOSE p \in [1..Cardinality(others) -> others] :
                    \A n \in others : \E i \in 1..Cardinality(others) : p[i] = n
        queue == rest \o seed_order[f.graph]
    IN  IF g.input_node = None
        THEN [f EXCEPT !.pc = "pop", !.node_queue = queue]
        ELSE LET input_node == g.nodes[g.input_node]
                 input_values == SubSeq(f.inputs, 1, Len(input_node.input_slots))
             IN  [f EXCEPT !.pc = "pop",
                           !.node_outputs = insert(EmptyMap, input_node.id, input_values),
                           !.node_queue =
                               PushFrontAll(queue, iter_node_outputs(f.graph, input_node.id))]

\* Seeded with iter_nodes yielding the nodes in the opposite order when run is called
\* again.
SeededOtherOrderAgain(f) ==
    LET g == Graph(f.graph)
        order == seed_order[f.graph]
        queue == IF first_run.done
                 THEN [ k \in 1..Len(order) |-> order[Len(order) + 1 - k] ]
                 ELSE order
    IN  IF g.input_node = None
        THEN [f EXCEPT !.pc = "pop", !.node_queue = queue]
        ELSE LET input_node == g.nodes[g.input_node]
                 input_values == SubSeq(f.inputs, 1, Len(input_node.input_slots))
             IN  [f EXCEPT !.pc = "pop",
                           !.node_outputs = insert(EmptyMap, input_node.id, input_values),
                           !.node_queue =
                               PushFrontAll(queue, iter_node_outputs(f.graph, input_node.id))]

\* Seeded with the input node's successors pushed to the back of the queue.
SeededSuccessorsAtBack(f) ==
    LET g == Graph(f.graph)
        queue == seed_order[f.graph]
    IN  IF g.input_node = None
        THEN [f EXCEPT !.pc = "pop", !.node_queue = queue]
        ELSE LET input_node == g.nodes[g.input_node]
                 input_values == SubSeq(f.inputs, 1, Len(input_node.input_slots))
                 edges == iter_node_outputs(f.graph, input_node.id)
             IN  [f EXCEPT !.pc = "pop",
                           !.node_outputs = insert(EmptyMap, input_node.id, input_values),
                           !.node_queue =
                               queue \o [ k \in 1..Len(edges) |-> edges[k].input_node ]]

\* The frame after a successful seed stage: the slot-less nodes queued, the input
\* node's outputs recorded and its successors pushed to the front.
Seeded(f) ==
    LET g == Graph(f.graph)
        queue == seed_order[f.graph]
    IN  IF g.input_node = None
        THEN [f EXCEPT !.pc = "pop", !.node_queue = queue]
        ELSE LET input_node == g.nodes[g.input_node]
                 input_values == SubSeq(f.inputs, 1, Len(input_node.input_slots))
             IN  [f EXCEPT !.pc = "pop",
                           !.node_outputs = insert(EmptyMap, input_node.id, input_values),
                           !.node_queue =
                               PushFrontAll(queue, iter_node_outputs(f.graph, input_node.id))]

\* MissingDependency with the node edges left unchecked.
MissingDependencySlotEdgesOnly(f) ==
    \E k \in 1..Len(iter_node_inputs(f.graph, f.node_state)) :
        /\ iter_node_inputs(f.graph, f.node_state)[k].kind = "SlotEdge"
        /\ ~ contains_key(f.node_outputs,
                          iter_node_inputs(f.graph, f.node_state)[k].output_node)

\* Whether some edge into the popped node comes from a node without recorded outputs.
MissingDependency(f) ==
    \E k \in 1..Len(iter_node_inputs(f.graph, f.node_state)) :
        ~ contains_key(f.node_outputs, iter_node_inputs(f.graph, f.node_state)[k].output_node)

\* slot_indices_and_inputs with a pair pushed for the node edges as well.
slot_indices_and_inputs_all_edges(f) ==
    LET edges == iter_node_inputs(f.graph, f.node_state)
    IN  [ k \in 1..Len(edges) |->
            IF edges[k].kind = "SlotEdge"
            THEN << edges[k].input_index,
                    get(f.node_outputs, edges[k].output_node)[edges[k].output_index + 1] >>
            ELSE << edges[k].input_index, Unset >> ]

\* slot_indices_and_inputs: one (input index, value) pair per slot edge into the node,
\* in the order the edges are enumerated.
slot_indices_and_inputs(f) ==
    LET IsSlot(e) == e.kind = "SlotEdge"
        edges == SelectSeq(iter_node_inputs(f.graph, f.node_state), IsSlot)
    IN  [ k \in 1..Len(edges) |->
            << edges[k].input_index,
               get(f.node_outputs, edges[k].output_node)[edges[k].output_index + 1] >> ]

\* sort_by_key(|(index, _)| *index), a stable sort
RECURSIVE sort_by_key(_)
InsertByKey(pairs, p) ==
    LET n == Cardinality({ k \in 1..Len(pairs) : pairs[k][1] <= p[1] })
    IN  SubSeq(pairs, 1, n) \o << p >> \o SubSeq(pairs, n + 1, Len(pairs))
sort_by_key(pairs) ==
    IF pairs = << >> THEN << >>
    ELSE InsertByKey(sort_by_key(SubSeq(pairs, 1, Len(pairs) - 1)), pairs[Len(pairs)])

\* SortedInputs with the sort left out.
UnsortedInputs(f) ==
    [ k \in 1..Len(slot_indices_and_inputs(f)) |-> slot_indices_and_inputs(f)[k][2] ]

\* The final sorted input list of the popped node.
SortedInputs(f) ==
    LET sorted == sort_by_key(slot_indices_and_inputs(f))
    IN  [ k \in 1..Len(sorted) |-> sorted[k][2] ]

\* FirstEmptyOutput scanning the outputs from the last slot down.
LastEmptyOutput(outputs) ==
    IF \E k \in 1..Len(outputs) : outputs[k] = Unset
    THEN (CHOOSE k \in 1..Len(outputs) :
             /\ outputs[k] = Unset
             /\ \A j \in (k + 1)..Len(outputs) : outputs[j] # Unset) - 1
    ELSE -1

\* The index of the first output slot left unset, -1 when all are set.
FirstEmptyOutput(outputs) ==
    IF \E k \in 1..Len(outputs) : outputs[k] = Unset
    THEN (CHOOSE k \in 1..Len(outputs) :
             /\ outputs[k] = Unset
             /\ \A j \in 1..(k - 1) : outputs[j] # Unset) - 1
    ELSE -1

\* The sequences of sub-graph runs a node may ask for in one run.
RequestSeqs(may_request) == UNION { [1..k -> may_request] : k \in 0..MaxRequests }

NoFirstRun == [done |-> FALSE, log |-> << >>, result |-> NoResult]

\* What the popped node's run may do when it returns Ok (ok) or an error: the outputs
\* array it leaves and the sub-graph runs it has asked for.  Node implementations are
\* deterministic: when run is called again and the node is run at the point of the
\* log, with the inputs, at which it was run the first time, it does what it did then.
Behaviours(f, ok) ==
    LET p == Len(log) + 1
        node == Graph(f.graph).nodes[f.node_state]
    IN  IF /\ first_run.done
           /\ p <= Len(first_run.log)
           /\ first_run.log[p].ev = "run"
           /\ first_run.log[p].graph = f.graph
           /\ first_run.log[p].node = f.node_state
           /\ first_run.log[p].depth = Len(stack)
           /\ first_run.log[p].inputs = f.node_inputs
        THEN IF first_run.log[p].ok = ok
             THEN { << first_run.log[p].outputs, first_run.log[p].requests >> }
             ELSE {}
        ELSE (IF ok THEN node.writes ELSE { f.outputs }) \X RequestSeqs(node.may_request)

(***************************************************************************)
(* Initial states: a root graph, its edges, the iteration order of nodes   *)
(***************************************************************************)
Range(s) == { s[k] : k \in 1..Len(s) }

\* The pairs i < j of 1..FreeNodes in lexicographic order.
RECURSIVE PairsFrom(_, _)
PairsFrom(i, j) ==
    IF i >= FreeNodes THEN << >>
    ELSE IF j > FreeNodes THEN PairsFrom(i + 1, i + 2)
    ELSE << << i, j >> >> \o PairsFrom(i, j + 1)

FreePairs == PairsFrom(1, 2)

\* The node edges of "free" for a set of pairs: always from a lower to a higher node,
\* so the edge set has no cycle.
FreeEdges(pairs) ==
    LET Keep(p) == p \in pairs
        kept == SelectSeq(FreePairs, Keep)
    IN  [ k \in 1..Len(kept) |-> NodeEdge(FreeNames[kept[k][1]], FreeNames[kept[k][2]]) ]

\* graph.iter_nodes().filter(|node| node.input_slots.is_empty())
SlotLess(g) ==
    { n \in DOMAIN Catalogue[g].nodes : Catalogue[g].nodes[n].input_slots = << >> }

Perms(S) ==
    { p \in [1..Cardinality(S) -> S] : \A i, j \in 1..Cardinality(S) : p[i] = p[j] => i = j }

\* One iteration order of the slot-less nodes for each of the graphs gs.
RECURSIVE SeedOrders(_)
SeedOrders(gs) ==
    IF gs = {} THEN { << >> }
    ELSE LET g == CHOOSE x \in gs : TRUE
         IN  { (g :> p) @@ f : p \in Perms(SlotLess(g)), f \in SeedOrders(gs \ {g}) }

(***************************************************************************)
(* ComputePassNode                                                         *)
(***************************************************************************)
\* The names under which cameras are registered in ActiveCameras.
CameraNames == {"Camera3d", "Camera2d"}

\* layout.bind_groups of the compute pipeline: its bind group descriptors, in order.
Layout == << [index |-> 0, id |-> "group0"], [index |-> 1, id |-> "group1"] >>

\* The resources prepare and update read. pipeline_descriptors: whether
\* Assets<ComputePipelineDescriptor> holds the node's pipeline_handle. bindings: per
\* bind group descriptor, where set_asset_bind_groups finds a bind group for it:
\* "world" (update_bind_group of the RenderResourceBindings resource; the node's own
\* render_resource_bindings stay empty), "asset" (of an asset's bindings) or None.
\* active_cameras: the names ActiveCameras holds a camera for. camera_bindings: the
\* descriptors a camera's bindings have a bind group for.
Worlds ==
    [pipeline_descriptors : BOOLEAN,
     bindings : [1..Len(Layout) -> {None, "world", "asset"}],
     active_cameras : SUBSET CameraNames,
     camera_bindings : SUBSET (1..Len(Layout))]

SetBindGroupCommand(index, descriptor_id, bind_group) ==
    [index |-> index, descriptor_id |-> descriptor_id, bind_group |-> bind_group]

\* ComputePassNode::new(pipeline_handle, work_groups)
ComputePassNode_new ==
    [pipeline_handle |-> "pipeline",
     specialized_pipeline_handle |-> None,
     bind_groups |-> << >>,
     work_groups |-> << 1, 1, 1 >>,
     cameras |-> << >>]

\* The handle setup_specialized_pipeline stores: the compiler's specialization of
\* pipeline_handle, already compiled or compiled now.
setup_specialized_pipeline(self) == << "specialized", self.pipeline_handle >>

\* set_asset_bind_groups over the descriptors of the layout from the d-th on: one
\* command for each descriptor some bindings have a bind group for.
RECURSIVE set_asset_bind_groups(_, _)
set_asset_bind_groups(w, d) ==
    IF d > Len(Layout) THEN << >>
    ELSE IF w.bindings[d] = None THEN set_asset_bind_groups(w, d + 1)
    ELSE << SetBindGroupCommand(Layout[d].index, Layout[d].id,
                                << w.bindings[d], Layout[d].id >>) >>
             \o set_asset_bind_groups(w, d + 1)

\* the inner loop of prepare: the commands of one active camera
RECURSIVE active_camera_bind_groups(_, _, _)
active_camera_bind_groups(w, camera_name, d) ==
    IF d > Len(Layout) THEN << >>
    ELSE IF d \notin w.camera_bindings THEN active_camera_bind_groups(w, camera_name, d + 1)
    ELSE << SetBindGroupCommand(Layout[d].index, Layout[d].id,
                                << camera_name, Layout[d].id >>) >>
             \o active_camera_bind_groups(w, camera_name, d + 1)

\* for camera_name in self.cameras.iter(): a name without an active camera is skipped
RECURSIVE camera_bind_groups(_, _)
camera_bind_groups(w, cameras) ==
    IF cameras = << >> THEN << >>
    ELSE (IF Head(cameras) \in w.active_cameras
          THEN active_camera_bind_groups(w, Head(cameras), 1)
          ELSE << >>)
         \o camera_bind_groups(w, Tail(cameras))

\* What update records: nothing yet, or the commands of one compute pass.
NoPass == [begun |-> FALSE, commands |-> << >>]
SetPipeline(handle) == [command |-> "set_pipeline", pipeline |-> handle]
SetBindGroup(c) ==
    [command |-> "set_bind_group", index |-> c.index, descriptor_id |-> c.descriptor_id,
     bind_group |-> c.bind_group]
Dispatch(work_groups) == [command |-> "dispatch", work_groups |-> work_groups]

NoCalls == [prepares |-> 0, setups |-> 0, panic |-> FALSE]

\* add_camera(camera_name)
AddCamera ==
    /\ ~ calls.panic
    /\ Len(pass_node.cameras) < MaxCameras
    /\ \E camera_name \in CameraNames :
           pass_node' = [pass_node EXCEPT !.cameras = Append(@, camera_name)]
    /\ UNCHANGED << world, compute_pass, calls, runner_vars >>

\* Between two calls on the node cameras become active or stop being so.
ActiveCamerasChange ==
    /\ ~ calls.panic
    /\ \E active \in SUBSET CameraNames :
           /\ active # world.active_cameras
           /\ world' = [world EXCEPT !.active_cameras = active]
    /\ UNCHANGED << pass_node, compute_pass, calls, runner_vars >>

\* Prepare keeping the commands of the previous frame.
PrepareKeepsBindGroups ==
    /\ ~ calls.panic
    /\ calls.prepares < MaxFrames
    /\ pass_node.specialized_pipeline_handle = None => world.pipeline_descriptors
    /\ LET is_none == pass_node.specialized_pipeline_handle = None
       IN  /\ pass_node' =
                  [pass_node EXCEPT
                     !.specialized_pipeline_handle =
                         IF is_none THEN setup_specialized_pipeline(pass_node) ELSE @,
                     !.bind_groups = @ \o set_asset_bind_groups(world, 1)
                                       \o camera_bind_groups(world, pass_node.cameras)]
           /\ calls' = [calls EXCEPT !.prepares = @ + 1,
                                     !.setups = IF is_none THEN @ + 1 ELSE @]
    /\ compute_pass' = NoPass
    /\ UNCHANGED << world, runner_vars >>

\* Prepare setting the pipeline up whether or not the handle is set.
PrepareAlwaysSetsUp ==
    /\ ~ calls.panic
    /\ calls.prepares < MaxFrames
    /\ world.pipeline_descriptors
    /\ pass_node' =
           [pass_node EXCEPT
              !.specialized_pipeline_handle = setup_specialized_pipeline(pass_node),
              !.bind_groups = set_asset_bind_groups(world, 1)
                              \o camera_bind_groups(world, pass_node.cameras)]
    /\ calls' = [calls EXCEPT !.prepares = @ + 1, !.setups = @ + 1]
    /\ compute_pass' = NoPass
    /\ UNCHANGED << world, runner_vars >>

\* prepare(world): bind_groups.clear(); setup_specialized_pipeline if the handle
\* is_none(); then the commands of the resource bindings and of the active cameras
Prepare ==
    /\ ~ calls.panic
    /\ calls.prepares < MaxFrames
    /\ pass_node.specialized_pipeline_handle = None => world.pipeline_descriptors
    /\ LET is_none == pass_node.specialized_pipeline_handle = None
       IN  /\ pass_node' =
                  [pass_node EXCEPT
                     !.specialized_pipeline_handle =
                         IF is_none THEN setup_specialized_pipeline(pass_node) ELSE @,
                     !.bind_groups = set_asset_bind_groups(world, 1)
                                     \o camera_bind_groups(world, pass_node.cameras)]
           /\ calls' = [calls EXCEPT !.prepares = @ + 1,
                                     !.setups = IF is_none THEN @ + 1 ELSE @]
    /\ compute_pass' = NoPass
    /\ UNCHANGED << world, runner_vars >>

\* prepare(world) where pipeline_descriptors.get(&self.pipeline_handle).unwrap()
\* panics inside setup_specialized_pipeline: the list is cleared, the handle not set
PreparePanics ==
    /\ ~ calls.panic
    /\ calls.prepares < MaxFrames
    /\ pass_node.specialized_pipeline_handle = None
    /\ ~ world.pipeline_descriptors
    /\ pass_node' = [pass_node EXCEPT !.bind_groups = << >>]
    /\ calls' = [calls EXCEPT !.prepares = @ + 1, !.setups = @ + 1, !.panic = TRUE]
    /\ compute_pass' = NoPass
    /\ UNCHANGED << world, runner_vars >>

\* update(..): begin_compute_pass, set_pipeline, the prepared bind groups, dispatch
Update ==
    /\ ~ calls.panic
    /\ pass_node.specialized_pipeline_handle # None
    /\ compute_pass' =
           [begun |-> TRUE,
            commands |->
                << SetPipeline(pass_node.specialized_pipeline_handle) >>
                \o [i \in 1..Len(pass_node.bind_groups) |->
                        SetBindGroup(pass_node.bind_groups[i])]
                \o << Dispatch(pass_node.work_groups) >>]
    /\ UNCHANGED << pass_node, world, calls, runner_vars >>

\* update(..) where self.specialized_pipeline_handle.as_ref().unwrap() panics inside
\* the pass: nothing is set, nothing dispatched
UpdatePanics ==
    /\ ~ calls.panic
    /\ pass_node.specialized_pipeline_handle = None
    /\ compute_pass' = [begun |-> TRUE, commands |-> << >>]
    /\ calls' = [calls EXCEPT !.panic = TRUE]
    /\ UNCHANGED << pass_node, world, runner_vars >>

(***************************************************************************)
(* Initial states                                                          *)
(***************************************************************************)
\* The world of the runs of the render graph runner: no compute node is driven.
NoWorld ==
    [pipeline_descriptors |-> TRUE, bindings |-> [d \in 1..Len(Layout) |-> None],
     active_cameras |-> {}, camera_bindings |-> {}]

Init ==
    /\ pass_node = ComputePassNode_new
    /\ world = NoWorld
    /\ compute_pass = NoPass
    /\ calls = NoCalls
    /\ root \in RootGraphs
    /\ free_edges \in IF root = "free"
                      THEN { FreeEdges(pairs) : pairs \in SUBSET Range(FreePairs) }
                      ELSE { << >> }
    /\ seed_order \in SeedOrders(Nested(root))
    /\ run_state = "init"
    /\ stack = << >>
    /\ ret = NoResult
    /\ result = NoResult
    /\ submitted = 0
    /\ log = << >>
    /\ first_run = NoFirstRun

(***************************************************************************)
(* run                                                                     *)
(***************************************************************************)
\* WgpuRenderContext::new(device, resources.clone()): each call of run makes its own
NewRenderContext == IF first_run.done THEN 2 ELSE 1

\* RunBegin handing an input value to the root graph.
RunBeginWithInput ==
    /\ run_state = "init"
    /\ run_state' = "called"
    /\ stack' = << Frame(root, None, NewRenderContext, << Entity5 >>) >>
    /\ log' = Append(log, Event("begin", root, None, None, 1, << Entity5 >>, << >>, << >>,
                                TRUE))
    /\ UNCHANGED << compute_vars, root, free_edges, seed_order, first_run, ret, result, submitted >>

\* Self::run_graph(graph, None, &mut render_context, world, &[])
RunBegin ==
    /\ run_state = "init"
    /\ run_state' = "called"
    /\ stack' = << Frame(root, None, NewRenderContext, << >>) >>
    /\ log' = Append(log, Event("begin", root, None, None, 1, << >>, << >>, << >>, TRUE))
    /\ UNCHANGED << compute_vars, root, free_edges, seed_order, first_run, ret, result, submitted >>

\* run_graph returned Ok and render_context.finish() holds a command buffer
RunSubmit ==
    /\ run_state = "called" /\ Depth = 0 /\ ret.kind = "Ok"
    /\ submitted' = submitted + 1
    /\ result' = OkResult
    /\ run_state' = "done"
    /\ ret' = NoResult
    /\ UNCHANGED << compute_vars, root, free_edges, seed_order, first_run, stack, log >>

\* run_graph returned Ok and render_context.finish() holds nothing
RunNothingToSubmit ==
    /\ run_state = "called" /\ Depth = 0 /\ ret.kind = "Ok"
    /\ result' = OkResult
    /\ run_state' = "done"
    /\ ret' = NoResult
    /\ UNCHANGED << compute_vars, root, free_edges, seed_order, first_run, stack, submitted, log >>

\* RunErr without the ?: the command buffer is submitted all the same.
RunErrSubmits ==
    /\ run_state = "called" /\ Depth = 0 /\ IsErr(ret)
    /\ submitted' = submitted + 1
    /\ result' = ret
    /\ run_state' = "done"
    /\ ret' = NoResult
    /\ UNCHANGED << compute_vars, root, free_edges, seed_order, first_run, stack, log >>

\* run_graph(..)? returned an error
RunErr ==
    /\ run_state = "called" /\ Depth = 0 /\ IsErr(ret)
    /\ result' = ret
    /\ run_state' = "done"
    /\ ret' = NoResult
    /\ UNCHANGED << compute_vars, root, free_edges, seed_order, first_run, stack, submitted, log >>

\* run is called a second time with the same graph
RunAgain ==
    /\ run_state = "done" /\ ~ first_run.done
    /\ Len(log) <= MaxReplay
    /\ first_run' = [done |-> TRUE, log |-> log, result |-> result]
    /\ run_state' = "init"
    /\ result' = NoResult
    /\ submitted' = 0
    /\ log' = << >>
    /\ UNCHANGED << compute_vars, root, free_edges, seed_order, stack, ret >>

(***************************************************************************)
(* run_graph                                                               *)
(***************************************************************************)
EndEvent(f, ok) ==
    Event("end", f.graph, f.graph_name, None, Depth, << >>, << >>, << >>, ok)

SeedMismatchedInput ==
    /\ At("seed")
    /\ SeedCheck(Top).kind = "MismatchedInputSlotType"
    /\ ReturnErr(SeedCheck(Top))
    /\ log' = Append(log, EndEvent(Top, FALSE))
    /\ UNCHANGED << compute_vars, root, free_edges, seed_order, first_run, run_state, result, submitted >>

SeedMissingInput ==
    /\ At("seed")
    /\ SeedCheck(Top).kind = "MissingInput"
    /\ ReturnErr(SeedCheck(Top))
    /\ log' = Append(log, EndEvent(Top, FALSE))
    /\ UNCHANGED << compute_vars, root, free_edges, seed_order, first_run, run_state, result, submitted >>

SeedOk ==
    /\ At("seed")
    /\ SeedCheck(Top).kind = "Ok"
    /\ stack' = SetTop(Seeded(Top))
    /\ UNCHANGED << compute_vars, root, free_edges, seed_order, first_run, run_state, ret, result, submitted, log >>

\* PopNode taking the node from the front of the queue.
PopNodeFront ==
    /\ At("pop")
    /\ Top.node_queue # << >>
    /\ ~ contains_key(Top.node_outputs, Head(Top.node_queue))
    /\ stack' = SetTop([Top EXCEPT !.node_queue = Tail(@),
                                   !.node_state = Head(Top.node_queue),
                                   !.pc = "check"])
    /\ UNCHANGED << compute_vars, root, free_edges, seed_order, first_run, run_state, ret, result, submitted, log >>

\* node_queue.pop_back() yields a node without recorded outputs
PopNode ==
    /\ At("pop")
    /\ Top.node_queue # << >>
    /\ ~ contains_key(Top.node_outputs, back(Top.node_queue))
    /\ stack' = SetTop([Top EXCEPT !.node_queue = without_back(@),
                                   !.node_state = back(Top.node_queue),
                                   !.pc = "check"])
    /\ UNCHANGED << compute_vars, root, free_edges, seed_order, first_run, run_state, ret, result, submitted, log >>

\* SkipProcessed without the contains_key test: the node is handled again.
SkipProcessedRunsAgain ==
    /\ At("pop")
    /\ Top.node_queue # << >>
    /\ contains_key(Top.node_outputs, back(Top.node_queue))
    /\ stack' = SetTop([Top EXCEPT !.node_queue = without_back(@),
                                   !.node_state = back(Top.node_queue),
                                   !.pc = "check"])
    /\ UNCHANGED << compute_vars, root, free_edges, seed_order, first_run, run_state, ret, result, submitted, log >>

\* SkipProcessed pushing the successors of the processed node once more.
SkipProcessedQueuesSuccessors ==
    /\ At("pop")
    /\ Top.node_queue # << >>
    /\ contains_key(Top.node_outputs, back(Top.node_queue))
    /\ stack' = SetTop([Top EXCEPT
                          !.node_queue =
                              PushFrontAll(without_back(@),
                                           iter_node_outputs(Top.graph,
                                                             back(Top.node_queue)))])
    /\ UNCHANGED << compute_vars, root, free_edges, seed_order, first_run, run_state, ret, result, submitted, log >>

\* node_queue.pop_back() yields a node that is already processed: continue
SkipProcessed ==
    /\ At("pop")
    /\ Top.node_queue # << >>
    /\ contains_key(Top.node_outputs, back(Top.node_queue))
    /\ stack' = SetTop([Top EXCEPT !.node_queue = without_back(@)])
    /\ UNCHANGED << compute_vars, root, free_edges, seed_order, first_run, run_state, ret, result, submitted, log >>

\* node_queue.pop_back() yields None: Ok(())
ReturnOk ==
    /\ At("pop")
    /\ Top.node_queue = << >>
    /\ stack' = Popped
    /\ ret' = OkResult
    /\ log' = Append(log, EndEvent(Top, TRUE))
    /\ UNCHANGED << compute_vars, root, free_edges, seed_order, first_run, run_state, result, submitted >>

\* Defer with push_back: the node is put at the end nodes are popped from.
DeferPushesBack ==
    /\ At("check")
    /\ MissingDependency(Top)
    /\ stack' = SetTop([Top EXCEPT !.node_queue = Append(@, Top.node_state),
                                   !.node_state = None,
                                   !.pc = "pop"])
    /\ UNCHANGED << compute_vars, root, free_edges, seed_order, first_run, run_state, ret, result, submitted, log >>

\* Defer without the push_front: the node is dropped.
DeferDropsNode ==
    /\ At("check")
    /\ MissingDependency(Top)
    /\ stack' = SetTop([Top EXCEPT !.node_state = None, !.pc = "pop"])
    /\ UNCHANGED << compute_vars, root, free_edges, seed_order, first_run, run_state, ret, result, submitted, log >>

\* a dependency has not finished running: push_front and continue 'handle_node
Defer ==
    /\ At("check")
    /\ MissingDependency(Top)
    /\ stack' = SetTop([Top EXCEPT !.node_queue = push_front(@, Top.node_state),
                                   !.node_state = None,
                                   !.pc = "pop"])
    /\ UNCHANGED << compute_vars, root, free_edges, seed_order, first_run, run_state, ret, result, submitted, log >>

\* AssertFails without the assert_eq!: the node is run with the inputs gathered.
AssertFailsRunsNode ==
    /\ At("check")
    /\ ~ MissingDependency(Top)
    /\ Len(SortedInputs(Top)) # Len(NodeOf(Top).input_slots)
    /\ stack' = SetTop([Top EXCEPT
                          !.node_inputs = SortedInputs(Top),
                          !.outputs = [ k \in 1..Len(NodeOf(Top).output_slots) |-> Unset ],
                          !.pc = "run"])
    /\ UNCHANGED << compute_vars, root, free_edges, seed_order, first_run, run_state, ret, result, submitted, log >>

\* assert_eq!(inputs.len(), node_state.input_slots.len()) fails
AssertFails ==
    /\ At("check")
    /\ ~ MissingDependency(Top)
    /\ Len(SortedInputs(Top)) # Len(NodeOf(Top).input_slots)
    /\ run_state' = "done"
    /\ result' = Panic
    /\ stack' = << >>
    /\ UNCHANGED << compute_vars, root, free_edges, seed_order, first_run, ret, submitted, log >>

\* AssembleInputs comparing the type of each gathered value with the declared type
\* of its input slot.
AssembleInputsTyped ==
    /\ At("check")
    /\ ~ MissingDependency(Top)
    /\ Len(SortedInputs(Top)) = Len(NodeOf(Top).input_slots)
    /\ LET inputs == SortedInputs(Top)
           slots == NodeOf(Top).input_slots
           bad == { i \in 1..Len(inputs) : slot_type(inputs[i]) # slots[i].slot_type }
       IN  IF bad = {}
           THEN /\ stack' = SetTop([Top EXCEPT
                                      !.node_inputs = inputs,
                                      !.outputs = [ k \in 1..Len(NodeOf(Top).output_slots)
                                                      |-> Unset ],
                                      !.pc = "run"])
                /\ UNCHANGED << ret, log >>
           ELSE LET i == CHOOSE i \in bad : \A j \in bad : i <= j
                IN  /\ ReturnErr(MismatchedInputSlotType(i - 1, slots[i].name,
                                                         slots[i].slot_type,
                                                         slot_type(inputs[i])))
                    /\ log' = Append(log, EndEvent(Top, FALSE))
    /\ UNCHANGED << compute_vars, root, free_edges, seed_order, first_run, run_state, result, submitted >>

\* all dependencies have finished: the sorted input list and a blank outputs array
AssembleInputs ==
    /\ At("check")
    /\ ~ MissingDependency(Top)
    /\ Len(SortedInputs(Top)) = Len(NodeOf(Top).input_slots)
    /\ stack' = SetTop([Top EXCEPT
                          !.node_inputs = SortedInputs(Top),
                          !.outputs = [ k \in 1..Len(NodeOf(Top).output_slots) |-> Unset ],
                          !.pc = "run"])
    /\ UNCHANGED << compute_vars, root, free_edges, seed_order, first_run, run_state, ret, result, submitted, log >>

RunEvent(f, outputs, requests, ok) ==
    Event("run", f.graph, f.graph_name, f.node_state, Depth, f.node_inputs, outputs,
          requests, ok)

\* node_state.node.run(..)? returns an error, after the node has asked for some
\* sub-graph runs, which stay in the context
RunNodeErr ==
    /\ At("run")
    /\ NodeOf(Top).may_fail
    /\ ReturnErr(NodeRunError(NodeOf(Top).type_name))
    /\ \E b \in Behaviours(Top, FALSE) :
          log' = log \o << RunEvent(Top, b[1], b[2], FALSE), EndEvent(Top, FALSE) >>
    /\ UNCHANGED << compute_vars, root, free_edges, seed_order, first_run, run_state, result, submitted >>

\* RunNodeOk recording the outputs and queueing the successors before the sub-graph
\* runs are drained.
RunNodeOkRecordsFirst ==
    /\ At("run")
    /\ \E b \in Behaviours(Top, TRUE) :
          /\ stack' = SetTop([Top EXCEPT
                                !.outputs = b[1],
                                !.run_sub_graphs = b[2],
                                !.node_outputs = insert(@, Top.node_state, b[1]),
                                !.node_queue =
                                    PushFrontAll(@, iter_node_outputs(Top.graph,
                                                                      Top.node_state)),
                                !.pc = "drain"])
          /\ log' = Append(log, RunEvent(Top, b[1], b[2], TRUE))
    /\ UNCHANGED << compute_vars, root, free_edges, seed_order, first_run, run_state, ret, result, submitted >>

\* node_state.node.run(..) returns Ok: it has written some outputs and asked for
\* some sub-graph runs, which context.finish() hands over
RunNodeOk ==
    /\ At("run")
    /\ \E b \in Behaviours(Top, TRUE) :
          /\ stack' = SetTop([Top EXCEPT !.outputs = b[1],
                                         !.run_sub_graphs = b[2],
                                         !.pc = "drain"])
          /\ log' = Append(log, RunEvent(Top, b[1], b[2], TRUE))
    /\ UNCHANGED << compute_vars, root, free_edges, seed_order, first_run, run_state, ret, result, submitted >>

\* CallSubGraph draining the requests from the last one.
CallSubGraphLastFirst ==
    /\ At("drain")
    /\ Top.run_sub_graphs # << >>
    /\ LET run_sub_graph == Top.run_sub_graphs[Len(Top.run_sub_graphs)]
           sub_graph == get_sub_graph(Top.graph, run_sub_graph.name)
       IN  /\ stack' = Append(SetTop([Top EXCEPT
                                        !.run_sub_graphs = SubSeq(@, 1, Len(@) - 1),
                                        !.pc = "await"]),
                              Frame(sub_graph, run_sub_graph.name, Top.render_context,
                                    run_sub_graph.inputs))
           /\ log' = Append(log, Event("begin", sub_graph, run_sub_graph.name, None,
                                       Depth + 1, run_sub_graph.inputs, << >>, << >>,
                                       TRUE))
    /\ UNCHANGED << compute_vars, root, free_edges, seed_order, first_run, run_state, ret, result, submitted >>

\* CallSubGraph handing the requesting invocation's node_outputs to the sub-graph's.
CallSubGraphSharedMap ==
    /\ At("drain")
    /\ Top.run_sub_graphs # << >>
    /\ LET run_sub_graph == Head(Top.run_sub_graphs)
           sub_graph == get_sub_graph(Top.graph, run_sub_graph.name)
       IN  /\ stack' = Append(SetTop([Top EXCEPT !.run_sub_graphs = Tail(@),
                                                 !.pc = "await"]),
                              [Frame(sub_graph, run_sub_graph.name, Top.render_context,
                                    run_sub_graph.inputs)
                                  EXCEPT !.node_outputs = Top.node_outputs])
           /\ log' = Append(log, Event("begin", sub_graph, run_sub_graph.name, None,
                                       Depth + 1, run_sub_graph.inputs, << >>, << >>,
                                       TRUE))
    /\ UNCHANGED << compute_vars, root, free_edges, seed_order, first_run, run_state, ret, result, submitted >>

\* CallSubGraph making a render context of its own for the sub-graph.
CallSubGraphOwnContext ==
    /\ At("drain")
    /\ Top.run_sub_graphs # << >>
    /\ LET run_sub_graph == Head(Top.run_sub_graphs)
           sub_graph == get_sub_graph(Top.graph, run_sub_graph.name)
       IN  /\ stack' = Append(SetTop([Top EXCEPT !.run_sub_graphs = Tail(@),
                                                 !.pc = "await"]),
                              Frame(sub_graph, run_sub_graph.name, Top.render_context + 2,
                                    run_sub_graph.inputs))
           /\ log' = Append(log, Event("begin", sub_graph, run_sub_graph.name, None,
                                       Depth + 1, run_sub_graph.inputs, << >>, << >>,
                                       TRUE))
    /\ UNCHANGED << compute_vars, root, free_edges, seed_order, first_run, run_state, ret, result, submitted >>

\* CallSubGraph, looking the requested name up among the sub-graphs of the root graph
\* before those of the graph being run.
CallSubGraphFromRoot ==
    /\ At("drain")
    /\ Top.run_sub_graphs # << >>
    /\ LET run_sub_graph == Head(Top.run_sub_graphs)
           sub_graph == IF run_sub_graph.name \in DOMAIN Graph(stack[1].graph).sub_graphs
                        THEN get_sub_graph(stack[1].graph, run_sub_graph.name)
                        ELSE get_sub_graph(Top.graph, run_sub_graph.name)
       IN  /\ stack' = Append(SetTop([Top EXCEPT !.run_sub_graphs = Tail(@),
                                                 !.pc = "await"]),
                              Frame(sub_graph, run_sub_graph.name, Top.render_context,
                                    run_sub_graph.inputs))
           /\ log' = Append(log, Event("begin", sub_graph, run_sub_graph.name, None,
                                       Depth + 1, run_sub_graph.inputs, << >>, << >>,
                                       TRUE))
    /\ UNCHANGED << compute_vars, root, free_edges, seed_order, first_run, run_state, ret, result, submitted >>

\* the next request of context.finish(): Self::run_graph(sub_graph, Some(name),
\* render_context, world, &run_sub_graph.inputs)
CallSubGraph ==
    /\ At("drain")
    /\ Top.run_sub_graphs # << >>
    /\ LET run_sub_graph == Head(Top.run_sub_graphs)
           sub_graph == get_sub_graph(Top.graph, run_sub_graph.name)
       IN  /\ stack' = Append(SetTop([Top EXCEPT !.run_sub_graphs = Tail(@),
                                                 !.pc = "await"]),
                              Frame(sub_graph, run_sub_graph.name, Top.render_context,
                                    run_sub_graph.inputs))
           /\ log' = Append(log, Event("begin", sub_graph, run_sub_graph.name, None,
                                       Depth + 1, run_sub_graph.inputs, << >>, << >>,
                                       TRUE))
    /\ UNCHANGED << compute_vars, root, free_edges, seed_order, first_run, run_state, ret, result, submitted >>

\* the sub-graph's run_graph returned Ok: on to the next request
SubGraphOk ==
    /\ run_state = "called" /\ Depth > 0 /\ ret.kind = "Ok"
    /\ Top.pc = "await"
    /\ stack' = SetTop([Top EXCEPT !.pc = "drain"])
    /\ ret' = NoResult
    /\ UNCHANGED << compute_vars, root, free_edges, seed_order, first_run, run_state, result, submitted, log >>

\* SubGraphErr without the ?: the error is dropped and the loop goes on.
SubGraphErrDropped ==
    /\ run_state = "called" /\ Depth > 0 /\ IsErr(ret)
    /\ Top.pc = "await"
    /\ stack' = SetTop([Top EXCEPT !.pc = "drain"])
    /\ ret' = NoResult
    /\ UNCHANGED << compute_vars, root, free_edges, seed_order, first_run, run_state, result, submitted, log >>

\* the sub-graph's run_graph(..)? returned an error: return it
SubGraphErr ==
    /\ run_state = "called" /\ Depth > 0 /\ IsErr(ret)
    /\ Top.pc = "await"
    /\ stack' = Popped
    /\ log' = Append(log, EndEvent(Top, FALSE))
    /\ UNCHANGED << compute_vars, root, free_edges, seed_order, first_run, run_state, ret, result, submitted >>

\* EmptyOutputSlot looking at the outputs before the sub-graph requests are drained.
EmptyOutputSlotBeforeDrain ==
    /\ At("drain")
    /\ FirstEmptyOutput(Top.outputs) >= 0
    /\ LET i == FirstEmptyOutput(Top.outputs)
       IN  ReturnErr(EmptyNodeOutputSlot(NodeOf(Top).type_name, i,
                                         NodeOf(Top).output_slots[i + 1].name))
    /\ log' = Append(log, EndEvent(Top, FALSE))
    /\ UNCHANGED << compute_vars, root, free_edges, seed_order, first_run, run_state, result, submitted >>

\* an output slot is None: return EmptyNodeOutputSlot
EmptyOutputSlot ==
    /\ At("drain")
    /\ Top.run_sub_graphs = << >>
    /\ FirstEmptyOutput(Top.outputs) >= 0
    /\ LET i == FirstEmptyOutput(Top.outputs)
       IN  ReturnErr(EmptyNodeOutputSlot(NodeOf(Top).type_name, i,
                                         NodeOf(Top).output_slots[i + 1].name))
    /\ log' = Append(log, EndEvent(Top, FALSE))
    /\ UNCHANGED << compute_vars, root, free_edges, seed_order, first_run, run_state, result, submitted >>

\* RecordOutputs taking the edges out of the recorded node away from the graph.
RecordOutputsRemovesEdges ==
    /\ At("drain")
    /\ Top.run_sub_graphs = << >>
    /\ FirstEmptyOutput(Top.outputs) < 0
    /\ stack' = SetTop([Top EXCEPT
                          !.node_outputs = insert(@, Top.node_state, Top.outputs),
                          !.node_queue =
                              PushFrontAll(@, iter_node_outputs(Top.graph, Top.node_state)),
                          !.node_state = None,
                          !.node_inputs = << >>,
                          !.outputs = << >>,
                          !.pc = "pop"])
    /\ LET Others(e) == e.output_node # Top.node_state
       IN  free_edges' = SelectSeq(free_edges, Others)
    /\ UNCHANGED << compute_vars, root, seed_order, first_run, run_state, ret, result, submitted, log >>

\* RecordOutputs queueing only the successors whose sources are all recorded.
RecordOutputsQueuesReadyOnly ==
    /\ At("drain")
    /\ Top.run_sub_graphs = << >>
    /\ FirstEmptyOutput(Top.outputs) < 0
    /\ LET recorded == insert(Top.node_outputs, Top.node_state, Top.outputs)
           Ready(e) == \A k \in 1..Len(iter_node_inputs(Top.graph, e.input_node)) :
                          contains_key(recorded,
                                       iter_node_inputs(Top.graph, e.input_node)[k].output_node)
       IN  stack' = SetTop([Top EXCEPT
                              !.node_outputs = recorded,
                              !.node_queue =
                                  PushFrontAll(@, SelectSeq(iter_node_outputs(Top.graph,
                                                                              Top.node_state),
                                                            Ready)),
                              !.node_state = None,
                              !.node_inputs = << >>,
                              !.outputs = << >>,
                              !.pc = "pop"])
    /\ UNCHANGED << compute_vars, root, free_edges, seed_order, first_run, run_state, ret, result, submitted, log >>

\* every output slot is set: node_outputs.insert and push_front of the successors
RecordOutputs ==
    /\ At("drain")
    /\ Top.run_sub_graphs = << >>
    /\ FirstEmptyOutput(Top.outputs) < 0
    /\ stack' = SetTop([Top EXCEPT
                          !.node_outputs = insert(@, Top.node_state, Top.outputs),
                          !.node_queue =
                              PushFrontAll(@, iter_node_outputs(Top.graph, Top.node_state)),
                          !.node_state = None,
                          !.node_inputs = << >>,
                          !.outputs = << >>,
                          !.pc = "pop"])
    /\ UNCHANGED << compute_vars, root, free_edges, seed_order, first_run, run_state, ret, result, submitted, log >>

Next ==
    \/ RunBegin
    \/ RunSubmit
    \/ RunNothingToSubmit
    \/ RunErr
    \/ RunAgain
    \/ SeedMismatchedInput
    \/ SeedMissingInput
    \/ SeedOk
    \/ PopNode
    \/ SkipProcessed
    \/ ReturnOk
    \/ Defer
    \/ AssertFails
    \/ AssembleInputs
    \/ RunNodeErr
    \/ RunNodeOk
    \/ CallSubGraph
    \/ SubGraphOk
    \/ SubGraphErr
    \/ EmptyOutputSlot
    \/ RecordOutputs

Spec == Init /\ [][Next]_vars

\* run and run_graph are sequential code: a step that can be taken is taken.
FairSpec == Spec /\ WF_vars(Next)

\* The runs on the graphs whose edges the catalogue fixes, under the same fairness.
FixedInit == Init /\ root # "free"
FixedFairSpec == FixedInit /\ [][Next]_vars /\ WF_vars(Next)

\* A ComputePassNode driven on its own: cameras are added, the node is prepared and
\* updated in any order, the active cameras change in between; no graph is run.
ComputeInit ==
    /\ pass_node = ComputePassNode_new
    /\ world \in Worlds
    /\ compute_pass = NoPass
    /\ calls = NoCalls
    /\ root = "chain"
    /\ free_edges = << >>
    /\ seed_order = CHOOSE o \in SeedOrders(Nested("chain")) : TRUE
    /\ run_state = "init"
    /\ stack = << >>
    /\ ret = NoResult
    /\ result = NoResult
    /\ submitted = 0
    /\ log = << >>
    /\ first_run = NoFirstRun

ComputeNext ==
    \/ AddCamera
    \/ ActiveCamerasChange
    \/ Prepare
    \/ PreparePanics
    \/ Update
    \/ UpdatePanics

ComputeSpec == ComputeInit /\ [][ComputeNext]_vars

(***************************************************************************)
(* Properties                                                              *)
(***************************************************************************)
Last(s) == s[Len(s)]
Invoking == {"run", "drain", "await"}
InboundEdges(f) == iter_node_inputs(f.graph, f.node_state)

\* C1: in every run_graph invocation, when a node's run is invoked every source node
\* of its inbound slot edges and node edges has recorded outputs in that invocation's
\* node_outputs; so D of the diamond runs only after B and C are recorded.
C1_DependenciesRecordedBeforeRun ==
    \A d \in 1..Depth :
        stack[d].pc \in Invoking =>
            \A k \in 1..Len(InboundEdges(stack[d])) :
                contains_key(stack[d].node_outputs, InboundEdges(stack[d])[k].output_node)

\* D of the diamond is about to run.
C1_DiamondRunsD ==
    /\ Running
    /\ Top.graph = "diamond" /\ Top.node_state = "D" /\ Top.pc = "run"
    /\ Keys(Top.node_outputs) = {"A", "B", "C"}

\* C2: run terminates for every graph without cycles, whatever the seed order.
C2_RunTerminates == <>(run_state = "done")

\* Whether every declared input slot of n is fed by a slot edge and every node that n
\* depends on is, in turn, the input node or such a node.
RECURSIVE Satisfiable(_, _)
Satisfiable(g, n) ==
    \/ n = Graph(g).input_node
    \/ LET edges == iter_node_inputs(g, n)
       IN  /\ \A i \in 0..(Len(Graph(g).nodes[n].input_slots) - 1) :
                 \E k \in 1..Len(edges) :
                     edges[k].kind = "SlotEdge" /\ edges[k].input_index = i
           /\ \A k \in 1..Len(edges) : Satisfiable(g, edges[k].output_node)

\* The log index at which the invocation that ends at index e began.
BeginOf(e) ==
    CHOOSE b \in 1..e :
        /\ log[b].ev = "begin" /\ log[b].depth = log[e].depth
        /\ \A j \in (b + 1)..e : ~ (log[j].ev = "begin" /\ log[j].depth = log[e].depth)

\* The runs of node n by the invocation that ends at index e.
RunsOf(n, e) ==
    { i \in BeginOf(e)..e :
        log[i].ev = "run" /\ log[i].depth = log[e].depth /\ log[i].node = n }

\* C3: when a run_graph invocation returns Ok, no node of its graph was run twice,
\* and every node whose dependencies are satisfiable was run once (the input node,
\* whose outputs are the supplied inputs, aside).
C3_EvaluatedExactlyOnce ==
    (log # << >> /\ Last(log).ev = "end" /\ Last(log).ok) =>
        \A n \in DOMAIN Graph(Last(log).graph).nodes :
            /\ Cardinality(RunsOf(n, Len(log))) <= 1
            /\ (Satisfiable(Last(log).graph, n) /\ n # Graph(Last(log).graph).input_node)
                   => Cardinality(RunsOf(n, Len(log))) = 1

\* The diamond has returned Ok: D was queued by B and by C.
C3_DiamondOk ==
    /\ log # << >> /\ Last(log).ev = "end" /\ Last(log).ok
    /\ Last(log).graph = "diamond"
    /\ RunsOf("D", Len(log)) # {}

RanWith(n, inputs) ==
    \E i \in 1..Len(log) : log[i].ev = "run" /\ log[i].node = n /\ log[i].inputs = inputs

\* C4: over a slot edge (output index o, input index i) the destination's input i is
\* the source's recorded output o, in whatever order the edges are enumerated; in the
\* chain, when P writes 5 and Q forwards its input, R is run with 5 and run returns Ok.
C4_SlotEdgeValues ==
    /\ \A d \in 1..Depth :
           stack[d].pc \in Invoking =>
               \A k \in 1..Len(InboundEdges(stack[d])) :
                   LET e == InboundEdges(stack[d])[k]
                   IN  e.kind = "SlotEdge" =>
                           stack[d].node_inputs[e.input_index + 1] =
                               get(stack[d].node_outputs, e.output_node)[e.output_index + 1]
    /\ (/\ root = "chain" /\ run_state = "done"
        /\ \E i \in 1..Len(log) : /\ log[i].ev = "run" /\ log[i].node = "P" /\ log[i].ok
                                   /\ log[i].outputs = << Entity5 >>
        /\ \E i \in 1..Len(log) : /\ log[i].ev = "run" /\ log[i].node = "Q" /\ log[i].ok
                                   /\ log[i].outputs = log[i].inputs)
           => (result = OkResult /\ RanWith("R", << Entity5 >>))

\* D of the diamond is run with two different values, gathered in the order (1, 0).
C4_DiamondInputs ==
    /\ Running
    /\ Top.graph = "diamond" /\ Top.node_state = "D" /\ Top.pc = "drain"
    /\ Top.node_inputs[1] # Top.node_inputs[2]

\* What run, or else the innermost run_graph invocation that has returned, returned.
Outcome == IF run_state = "done" THEN result ELSE ret

HasUnset(outputs) == \E k \in 1..Len(outputs) : outputs[k] = Unset
LowestUnset(outputs) ==
    (CHOOSE k \in 1..Len(outputs) :
        outputs[k] = Unset /\ \A j \in 1..(k - 1) : outputs[j] # Unset) - 1

\* Log entry i is a node run that returned Ok and left an output slot unset.
LeftUnset(i) == log[i].ev = "run" /\ log[i].ok /\ HasUnset(log[i].outputs)

\* The sub-graph runs that returned Ok after the node run at log index i.
SubRunsOk(i) ==
    { j \in (i + 1)..Len(log) :
        log[j].ev = "end" /\ log[j].ok /\ log[j].depth = log[i].depth + 1 }

\* C5 as claimed: whenever a node's run leaves a declared output unset, run fails
\* with EmptyNodeOutputSlot naming that node and an unset slot.
C5_UnsetOutputAlwaysReported ==
    \A i \in 1..Len(log) :
        (LeftUnset(i) /\ run_state = "done") =>
            /\ result.kind = "EmptyNodeOutputSlot"
            /\ result.node = Graph(log[i].graph).nodes[log[i].node].type_name
            /\ log[i].outputs[result.slot_index + 1] = Unset

\* C5 as amended: when a node's run leaves a declared output unset, no further node
\* of its graph is run (its outputs are not recorded, no successor is handled) and
\* run fails; when every sub-graph run the node asked for returned Ok, run fails with
\* EmptyNodeOutputSlot carrying the node's type name and the index and declared name
\* of the lowest unset slot (slot_index 0 for a node with one output).
C5_UnsetOutputReported ==
    \A i \in 1..Len(log) :
        LeftUnset(i) =>
            /\ \A j \in (i + 1)..Len(log) :
                   log[j].ev = "run" => log[j].depth > log[i].depth
            /\ run_state = "done" => IsErr(result)
            /\ (run_state = "done" /\ Cardinality(SubRunsOk(i)) = Len(log[i].requests)) =>
                   LET node == Graph(log[i].graph).nodes[log[i].node]
                       slot == LowestUnset(log[i].outputs)
                   IN  result = EmptyNodeOutputSlot(node.type_name, slot,
                                                    node.output_slots[slot + 1].name)

\* N left its output unset, the sub-graph runs it asked for returned Ok, and run
\* failed with EmptyNodeOutputSlot for slot 0 of N.
C5_UnsetAfterSubGraphs ==
    /\ run_state = "done"
    /\ result = EmptyNodeOutputSlot("N", 0, "out")
    /\ \E i \in 1..Len(log) : LeftUnset(i) /\ log[i].requests # << >>

DeclaredInputs(g) == Graph(g).nodes[Graph(g).input_node].input_slots

\* Log entry b begins a run_graph invocation of a graph with an input node.
BeginsWithInputNode(b) == log[b].ev = "begin" /\ Graph(log[b].graph).input_node # None

\* The declared input slots for which the invocation begun at b was supplied a value
\* of another type.
Mismatches(b) ==
    { i \in 0..(Len(DeclaredInputs(log[b].graph)) - 1) :
        /\ i < Len(log[b].inputs)
        /\ log[b].inputs[i + 1].ty # DeclaredInputs(log[b].graph)[i + 1].slot_type }

\* The invocation begun at b ended at once, with an error and without a node run.
FailedAtSeed(b) ==
    /\ log[b + 1].ev = "end" /\ ~ log[b + 1].ok /\ log[b + 1].depth = log[b].depth

\* C6: an invocation supplied with an input whose type differs from the declared type
\* of the input node's slot at that index fails with MismatchedInputSlotType carrying
\* that index, the declared and the supplied type, before any node of the graph runs,
\* and run returns that error.
C6_MismatchedInputRejected ==
    \A b \in 1..(Len(log) - 1) :
        (BeginsWithInputNode(b) /\ Mismatches(b) # {}) =>
            /\ FailedAtSeed(b)
            /\ Outcome.kind = "MismatchedInputSlotType"
            /\ Outcome.slot_index \in Mismatches(b)
            /\ Outcome.expected = DeclaredInputs(log[b].graph)[Outcome.slot_index + 1].slot_type
            /\ Outcome.actual = log[b].inputs[Outcome.slot_index + 1].ty
            /\ Outcome.slot_name = DeclaredInputs(log[b].graph)[Outcome.slot_index + 1].name

\* run has failed with MismatchedInputSlotType for a Buffer supplied to an Entity slot.
C6_MismatchReturned ==
    /\ run_state = "done"
    /\ result = MismatchedInputSlotType(0, "e", "Entity", "Buffer")

\* C7 as claimed: an invocation supplied with fewer inputs than its input node
\* declares fails with MissingInput.
C7_FewerInputsAlwaysMissingInput ==
    \A b \in 1..(Len(log) - 1) :
        (BeginsWithInputNode(b) /\ Len(log[b].inputs) < Len(DeclaredInputs(log[b].graph)))
            => Outcome.kind = "MissingInput"

\* C7 as amended: an invocation supplied with fewer inputs than its input node
\* declares, each of the declared type of its slot, fails at the seed stage with
\* MissingInput for the first slot without a value (its index and name, and the graph
\* name): no node of the graph is run, and nothing is recorded or queued before the
\* inputs are validated.
C7_MissingInputRejected ==
    /\ \A b \in 1..(Len(log) - 1) :
           (/\ BeginsWithInputNode(b)
            /\ Len(log[b].inputs) < Len(DeclaredInputs(log[b].graph))
            /\ Mismatches(b) = {})
               => /\ FailedAtSeed(b)
                  /\ Outcome = MissingInput(
                                   Len(log[b].inputs),
                                   DeclaredInputs(log[b].graph)[Len(log[b].inputs) + 1].name,
                                   log[b].name)
    /\ \A d \in 1..Depth :
           stack[d].pc = "seed" =>
               stack[d].node_outputs = EmptyMap /\ stack[d].node_queue = << >>

\* run has failed with MissingInput for slot 1 of sub-graph T, supplied one Entity.
C7_MissingInputReturned ==
    /\ run_state = "done"
    /\ result = MissingInput(1, "b", "T")

\* C8: when a node's run returns an error, at any depth of sub-graph invocation,
\* nothing is run or begun afterwards in any graph (the sub-graph runs the node asked
\* for included, and the node itself), every active invocation returns with an
\* error, and run returns NodeRunError of that node.
C8_NodeErrorPropagates ==
    \A i \in 1..Len(log) :
        (log[i].ev = "run" /\ ~ log[i].ok) =>
            /\ \A j \in (i + 1)..Len(log) : log[j].ev = "end" /\ ~ log[j].ok
            /\ Outcome = NodeRunError(Graph(log[i].graph).nodes[log[i].node].type_name)

\* A node of a sub-graph failed after asking for a sub-graph run, and run returned
\* its error.
C8_NestedNodeFailed ==
    /\ run_state = "done"
    /\ result.kind = "NodeRunError"
    /\ \E i \in 1..Len(log) :
           /\ log[i].ev = "run" /\ ~ log[i].ok
           /\ log[i].depth >= 2 /\ log[i].requests # << >>

\* C9: queue.submit is called at most once, only by run after the root run_graph
\* returned Ok, never by a run_graph invocation and never in a pass in which an
\* invocation of the root graph or of a sub-graph returned an error.
C9_NoPartialFrameSubmitted ==
    /\ submitted <= 1
    /\ submitted = 1 =>
           /\ run_state = "done" /\ result = OkResult
           /\ Last(log).ev = "end" /\ Last(log).depth = 1 /\ Last(log).ok
    /\ (\E j \in 1..Len(log) : log[j].ev = "end" /\ ~ log[j].ok) => submitted = 0
    /\ (IsErr(ret) \/ IsErr(result)) => submitted = 0
    /\ run_state # "done" => submitted = 0

\* The command buffer of a pass with a sub-graph run has been submitted.
C9_Submitted ==
    /\ submitted = 1
    /\ \E j \in 1..Len(log) : log[j].ev = "end" /\ log[j].depth = 2

\* The first log index after i of an entry no deeper than entry i; Len(log) + 1 when
\* there is none.
NextAt(i) ==
    IF \E j \in (i + 1)..Len(log) : log[j].depth <= log[i].depth
    THEN CHOOSE j \in (i + 1)..Len(log) :
             /\ log[j].depth <= log[i].depth
             /\ \A k \in (i + 1)..(j - 1) : log[k].depth > log[i].depth
    ELSE Len(log) + 1

\* The sub-graph invocations begun for the node run at log index i, in order.
Begun(i) ==
    LET IsBegin(e) == e.ev = "begin" /\ e.depth = log[i].depth + 1
    IN  SelectSeq(SubSeq(log, i + 1, NextAt(i) - 1), IsBegin)

\* C10: the sub-graph runs a node asks for are run after its run has returned, one
\* at a time in the order asked, each to completion before the next begins; all of
\* them have been run when the graph goes on to its next node or returns Ok.
C10_RequestsDrainedInOrder ==
    /\ \A i \in 1..Len(log) :
           (log[i].ev = "run" /\ log[i].ok) =>
               /\ Len(Begun(i)) <= Len(log[i].requests)
               /\ \A k \in 1..Len(Begun(i)) :
                      /\ Begun(i)[k].name = log[i].requests[k].name
                      /\ Begun(i)[k].inputs = log[i].requests[k].inputs
                      /\ Begun(i)[k].graph =
                             Graph(log[i].graph).sub_graphs[log[i].requests[k].name]
               /\ (/\ NextAt(i) <= Len(log)
                   /\ log[NextAt(i)].ev = "run" \/ log[NextAt(i)].ok)
                      => Len(Begun(i)) = Len(log[i].requests)
    /\ \A j \in 2..Len(log) :
           (log[j].ev = "begin") =>
               \/ /\ log[j - 1].ev = "run" /\ log[j - 1].ok
                  /\ log[j - 1].depth = log[j].depth - 1
               \/ /\ log[j - 1].ev = "end" /\ log[j - 1].ok
                  /\ log[j - 1].depth = log[j].depth
    /\ \A j \in 1..Len(log) :
           (log[j].ev = "run" /\ log[j].depth > 1) =>
               \E i \in 1..(j - 1) :
                   /\ log[i].ev = "run" /\ log[i].ok /\ log[i].depth = log[j].depth - 1
                   /\ \A k \in (i + 1)..(j - 1) : log[k].depth >= log[j].depth
    /\ \A d \in 1..(Depth - 1) : stack[d].pc = "await"

\* N asked for two different sub-graph runs, both have run to completion and the
\* graph has gone on.
C10_TwoRequestsDrained ==
    \E i \in 1..Len(log) :
        /\ log[i].ev = "run" /\ log[i].ok
        /\ Len(log[i].requests) = 2
        /\ log[i].requests[1].name # log[i].requests[2].name
        /\ Len(Begun(i)) = 2
        /\ NextAt(i) <= Len(log)

\* Frame d has run its node and has sub-graph runs of that node pending or under way.
Draining(d) ==
    \/ stack[d].pc = "await"
    \/ stack[d].pc = "drain" /\ stack[d].run_sub_graphs # << >>

\* The sub-graph runs begun for the node run at log index i that have ended Ok.
EndedOk(i) ==
    { j \in (i + 1)..(NextAt(i) - 1) :
        log[j].ev = "end" /\ log[j].ok /\ log[j].depth = log[i].depth + 1 }

\* C11: while the sub-graph runs a node asked for are pending or under way, the
\* node's outputs are not recorded and the queue and map of its invocation do not
\* change (no successor is enqueued); the next node of the node's own graph is run,
\* or the graph returns Ok, only after every requested sub-graph run has ended Ok, so
\* the sub-graphs' node runs lie in the log directly after the requesting node's.
C11_SubGraphRunsInline ==
    [][ /\ \A d \in 1..Depth :
              Draining(d) =>
                  /\ ~ contains_key(stack[d].node_outputs, stack[d].node_state)
                  /\ d <= Len(stack') =>
                         /\ stack'[d].node_outputs = stack[d].node_outputs
                         /\ stack'[d].node_queue = stack[d].node_queue
                         /\ stack'[d].node_state = stack[d].node_state
        /\ \A i \in 1..Len(log) :
              (/\ log[i].ev = "run" /\ log[i].ok
               /\ NextAt(i) <= Len(log)
               /\ log[NextAt(i)].ev = "run" \/ log[NextAt(i)].ok)
                  => /\ Cardinality(EndedOk(i)) = Len(log[i].requests)
                     /\ \A j \in (i + 1)..(NextAt(i) - 1) : log[j].ok
      ]_vars

\* N asked for S, the nodes of S have run and S has returned Ok; N's outputs are not
\* recorded yet and its successor M is not queued.
C11_SubGraphDoneBeforeRecord ==
    /\ Running /\ Depth = 1
    /\ Top.pc = "drain" /\ Top.node_state = "N" /\ Top.run_sub_graphs = << >>
    /\ ~ contains_key(Top.node_outputs, "N")
    /\ Top.node_queue = << >>
    /\ Last(log).ev = "end" /\ Last(log).ok /\ Last(log).graph = "sub_s"
    /\ \E j \in 1..Len(log) : log[j].ev = "run" /\ log[j].node = "X" /\ log[j].ok

\* The input slots a graph's input node declares; none when it has no input node.
DeclaredOrNone(g) ==
    IF Graph(g).input_node = None THEN << >> ELSE DeclaredInputs(g)

\* C12: a run_graph invocation gets past the seed stage only when the input node
\* declares exactly as many slots as values were supplied, with the types of the
\* values equal to the slots' types position by position (a sub-graph given one value
\* runs only if its input node declares exactly one slot of that type).
C12_SeedPassesOnlyOnExactMatch ==
    \A d \in 1..Depth :
        stack[d].pc # "seed" =>
            /\ Len(DeclaredOrNone(stack[d].graph)) = Len(stack[d].inputs)
            /\ \A k \in 1..Len(stack[d].inputs) :
                   DeclaredOrNone(stack[d].graph)[k].slot_type = stack[d].inputs[k].ty

\* C13: when run is called again with the same graph (and so the same inputs, none)
\* and the nodes behave as they did, the second run logs the same node runs and
\* sub-graph invocations in the same order and returns the same result.
C13_SecondRunRepeatsFirst ==
    first_run.done =>
        /\ Len(log) <= Len(first_run.log)
        /\ log = SubSeq(first_run.log, 1, Len(log))
        /\ run_state = "done" => (log = first_run.log /\ result = first_run.result)

\* Both runs are done and returned Ok, after node runs three invocations deep or
\* after three nodes were seeded together.
C13_BothRunsDone ==
    /\ first_run.done /\ run_state = "done"
    /\ result = OkResult
    /\ \/ \E j \in 1..Len(log) : log[j].ev = "run" /\ log[j].depth = 3
       \/ root = "free" /\ Len(free_edges) = 0

\* The fields of a frame that hold its invocation's locals.
Locals(f) ==
    << f.node_outputs, f.node_queue, f.node_state, f.node_inputs, f.outputs,
       f.run_sub_graphs >>

\* C14: every run_graph invocation starts with an empty node_outputs and node_queue
\* of its own and records only nodes of its own graph; while a sub-graph invocation
\* is active no step changes the map, the queue or any other local of the invocations
\* below it; and every sub-graph invocation that returns Ok has run each satisfiable
\* node of its graph once, however often the sub-graph was invoked before in the pass.
C14_FreshMapAndQueue ==
    [][ /\ \A d \in 1..Depth :
              /\ stack[d].pc = "seed" =>
                     stack[d].node_outputs = EmptyMap /\ stack[d].node_queue = << >>
              /\ Keys(stack[d].node_outputs) \subseteq DOMAIN Graph(stack[d].graph).nodes
              /\ (d < Depth /\ d <= Len(stack')) => Locals(stack'[d]) = Locals(stack[d])
        /\ \A e \in 1..Len(log) :
              (log[e].ev = "end" /\ log[e].ok /\ log[e].depth > 1) =>
                  \A n \in DOMAIN Graph(log[e].graph).nodes :
                      (Satisfiable(log[e].graph, n) /\ n # Graph(log[e].graph).input_node)
                          => Cardinality(RunsOf(n, e)) = 1
      ]_vars

\* Sub-graph S was invoked twice in one pass and returned Ok both times, and X was
\* run in both invocations.
C14_SubGraphTwice ==
    \E e1, e2 \in 1..Len(log) :
        /\ e1 < e2
        /\ log[e1].ev = "end" /\ log[e1].ok /\ log[e1].graph = "sub_s"
        /\ log[e2].ev = "end" /\ log[e2].ok /\ log[e2].graph = "sub_s"
        /\ RunsOf("X", e1) # {} /\ RunsOf("X", e2) # {}
        /\ RunsOf("X", e1) # RunsOf("X", e2)

\* C15: no step of run or run_graph changes a graph: the nodes, the edges, the input
\* node and the sub-graphs of the root graph and of every graph nested in it, and the
\* order in which each yields its nodes, are after the step what they were before.
C15_GraphsUnchanged ==
    [][ /\ root' = root
        /\ \A g \in Nested(root) : Graph(g)' = Graph(g)
        /\ seed_order' = seed_order
      ]_vars

\* run was called twice on a graph with edges and nodes were run.
C15_RanTwice ==
    /\ first_run.done /\ run_state = "done"
    /\ Graph(root).edges # << >>
    /\ \E j \in 1..Len(log) : log[j].ev = "run" /\ log[j].ok

\* The popped node of the innermost invocation has an inbound edge, of either kind,
\* whose source has no recorded outputs.
PoppedWithMissingSource ==
    /\ At("check")
    /\ \E k \in 1..Len(InboundEdges(Top)) :
           InboundEdges(Top)[k].output_node \notin Keys(Top.node_outputs)

\* C16: when the popped node has an inbound slot edge or node edge whose source has
\* no recorded outputs, the step that follows does not run the node and returns
\* nothing: the invocation goes on with node_outputs unchanged, no inputs kept, and
\* the node pushed to the front of node_queue.
C16_DeferredWhenSourceMissing ==
    [][ PoppedWithMissingSource =>
            /\ Len(stack') = Depth
            /\ stack'[Depth].pc = "pop"
            /\ stack'[Depth].node_outputs = Top.node_outputs
            /\ stack'[Depth].node_queue = << Top.node_state >> \o Top.node_queue
            /\ stack'[Depth].node_inputs = << >>
            /\ log' = log /\ ret' = ret /\ result' = result /\ run_state' = run_state
      ]_vars

\* D of the skewed diamond was popped after A alone had run, and was put back behind
\* B without being run.
C16_SkewDeferredD ==
    /\ Running /\ Top.graph = "skew" /\ Top.pc = "pop"
    /\ Top.node_queue = << "D", "B" >>
    /\ Keys(Top.node_outputs) = {"A"}
    /\ \A j \in 1..Len(log) : log[j].node # "D"

\* The step records the outputs of the node the innermost invocation has run.
Completes ==
    /\ At("drain") /\ Len(stack') = Depth /\ stack'[Depth].pc = "pop"

\* The step takes an entry out of the innermost invocation's queue.
Pops ==
    /\ At("pop") /\ Top.node_queue # << >> /\ Len(stack') = Depth

\* The direct successors of the node the innermost invocation has run.
Successors == { e.input_node : e \in Range(iter_node_outputs(Top.graph, Top.node_state)) }

\* C17 as claimed: the queue is last-in first-out, so when a node completes while
\* other nodes wait in the queue, the next node popped is one of its direct successors.
C17_SuccessorsPoppedFirst ==
    [][ (Completes /\ Top.node_queue # << >> /\ Successors # {}) =>
            back(stack'[Depth].node_queue) \in Successors
      ]_vars

\* C17 as amended: the queue is first-in first-out.  Entries are added at the front
\* and taken from the back: when a node completes, its direct successors are put in
\* front of the entries that already wait, which stay in their order and are popped
\* first; a pop takes the back entry and leaves the others in their order.
C17_QueueIsFifo ==
    [][ /\ Completes =>
              LET new == stack'[Depth].node_queue
                  old == Top.node_queue
                  added == Len(new) - Len(old)
              IN  /\ added = Len(iter_node_outputs(Top.graph, Top.node_state))
                  /\ SubSeq(new, added + 1, Len(new)) = old
                  /\ Range(SubSeq(new, 1, added)) = Successors
                  /\ old # << >> => back(new) = back(old)
        /\ Pops =>
              /\ stack'[Depth].node_queue = SubSeq(Top.node_queue, 1, Len(Top.node_queue) - 1)
              /\ stack'[Depth].pc = "check" => stack'[Depth].node_state = back(Top.node_queue)
      ]_vars

\* In the diamond C has completed and queued D while B was waiting: B is popped, D
\* stays in the queue.
C17_WaitingPoppedFirst ==
    /\ Running /\ Top.graph = "diamond" /\ Top.pc = "check"
    /\ Top.node_state = "B"
    /\ Top.node_queue = << "D" >>
    /\ Keys(Top.node_outputs) = {"A", "C"}

\* The step ends the seed stage of an invocation of a graph with an input node.
SeedsWithInputNode ==
    /\ At("seed") /\ Len(stack') = Depth /\ stack'[Depth].pc = "pop"
    /\ Graph(Top.graph).input_node # None

\* The direct successors of the input node of the innermost invocation's graph.
InputSuccessors ==
    { e.input_node : e \in Range(iter_node_outputs(Top.graph, Graph(Top.graph).input_node)) }

\* C18 as claimed: after the seed stage of a graph with an input node, the input
\* node's successors are popped before the seeded nodes without input slots, so the
\* first node popped is such a successor.
C18_InputSuccessorsPoppedFirst ==
    [][ (SeedsWithInputNode /\ InputSuccessors # {} /\ SlotLess(Top.graph) # {}) =>
            back(stack'[Depth].node_queue) \in InputSuccessors
      ]_vars

\* C18 as amended: the seed stage of a graph with an input node leaves the nodes
\* without input slots at the back of the queue, in the order iter_nodes yields them,
\* and the input node's successors in front of them: every seeded node is popped
\* before any of the input node's successors.
C18_SeededPoppedFirst ==
    [][ SeedsWithInputNode =>
            LET queue == stack'[Depth].node_queue
                seeded == seed_order[Top.graph]
                added == Len(queue) - Len(seeded)
            IN  /\ added = Len(iter_node_outputs(Top.graph, Graph(Top.graph).input_node))
                /\ SubSeq(queue, added + 1, Len(queue)) = seeded
                /\ Range(SubSeq(queue, 1, added)) = InputSuccessors
                /\ Range(seeded) = SlotLess(Top.graph)
                /\ seeded # << >> => back(queue) \in SlotLess(Top.graph)
      ]_vars

\* In sub-graph S the seeded node Y is popped while X, the input node's successor,
\* stays in the queue.
C18_SeededBeforeSuccessor ==
    /\ Running /\ Top.graph = "sub_s" /\ Top.pc = "check"
    /\ Top.node_state = "Y"
    /\ Top.node_queue = << "X" >>
    /\ Keys(Top.node_outputs) = {"I"}

\* The entry at the back of the innermost invocation's queue is a node with recorded
\* outputs.
BackIsProcessed ==
    /\ At("pop") /\ Top.node_queue # << >>
    /\ back(Top.node_queue) \in Keys(Top.node_outputs)

\* C19: popping a node that has recorded outputs removes that queue entry and does
\* nothing else: the node is not run, node_outputs and the rest of the queue stay as
\* they are, nothing is enqueued, logged or returned.
C19_ProcessedNodeSkipped ==
    [][ BackIsProcessed =>
            /\ stack' = [stack EXCEPT ![Depth].node_queue =
                                          SubSeq(Top.node_queue, 1, Len(Top.node_queue) - 1)]
            /\ log' = log /\ ret' = ret /\ result' = result
            /\ run_state' = run_state /\ submitted' = submitted
      ]_vars

\* D of the diamond, queued by C and by B, has run once and its second queue entry
\* has been popped and dropped.
C19_DiamondSecondD ==
    /\ Running /\ Top.graph = "diamond" /\ Top.pc = "pop"
    /\ Top.node_queue = << >>
    /\ Keys(Top.node_outputs) = {"A", "B", "C", "D"}
    /\ Cardinality({ j \in 1..Len(log) : log[j].ev = "run" /\ log[j].node = "D" }) = 1

\* The number of slot edges into node n of graph g.
SlotEdgesInto(g, n) ==
    Cardinality({ k \in 1..Len(iter_node_inputs(g, n)) :
                    iter_node_inputs(g, n)[k].kind = "SlotEdge" })

\* C20: a node is run only with as many input values as it declares input slots;
\* when the popped node's sources are all recorded and its inbound slot edges are not
\* as many as its declared input slots, the thread panics: the node is not run,
\* nothing is returned or submitted.
C20_InputCountAsserted ==
    /\ \A d \in 1..Depth :
           stack[d].pc \in Invoking =>
               Len(stack[d].node_inputs) = Len(NodeOf(stack[d]).input_slots)
    /\ \A i \in 1..Len(log) :
           log[i].ev = "run" =>
               /\ Len(log[i].inputs) = Len(Graph(log[i].graph).nodes[log[i].node].input_slots)
               /\ SlotEdgesInto(log[i].graph, log[i].node) = Len(log[i].inputs)
    /\ result = Panic =>
           /\ run_state = "done" /\ stack = << >> /\ submitted = 0

\* In 'unfed' A3 has run and X3, queued as its successor with a declared input no
\* edge feeds, made the assertion fail without being run.
C20_UnfedPanics ==
    /\ root = "unfed" /\ result = Panic
    /\ \E j \in 1..Len(log) : log[j].ev = "run" /\ log[j].node = "A3"
    /\ \A j \in 1..Len(log) : log[j].node # "X3"

\* C21: the step that completes a node records, under the node's id, the outputs
\* array its run left, which has one set value per declared output slot, and leaves
\* every direct successor over a slot edge or a node edge in the queue, whether or not
\* the successor's other sources are recorded; every recorded vector of a node that
\* was run has as many values as the node declares output slots.
C21_OutputsRecordedSuccessorsQueued ==
    [][ /\ Completes =>
              /\ Len(Top.outputs) = Len(NodeOf(Top).output_slots)
              /\ \A k \in 1..Len(Top.outputs) : Top.outputs[k] \in SlotValues
              /\ stack'[Depth].node_outputs =
                     { e \in Top.node_outputs : e[1] # Top.node_state }
                         \cup { << Top.node_state, Top.outputs >> }
              /\ \A k \in 1..Len(Graph(Top.graph).edges) :
                     Graph(Top.graph).edges[k].output_node = Top.node_state =>
                         Graph(Top.graph).edges[k].input_node
                             \in Range(stack'[Depth].node_queue)
        /\ \A d \in 1..Depth :
              \A e \in stack[d].node_outputs :
                  e[1] # Graph(stack[d].graph).input_node =>
                      /\ Len(e[2]) = Len(Graph(stack[d].graph).nodes[e[1]].output_slots)
                      /\ Unset \notin Range(e[2])
      ]_vars

\* C of the diamond has completed: its output is recorded and D is queued although
\* B, D's other source, has not run.
C21_DiamondQueuesD ==
    /\ Running /\ Top.graph = "diamond" /\ Top.pc = "pop"
    /\ Top.node_queue = << "D", "B" >>
    /\ Keys(Top.node_outputs) = {"A", "C"}
    /\ Len(get(Top.node_outputs, "C")) = 1

\* C22: a node edge only orders: the inputs a node is run with are one value per
\* inbound slot edge, the value at input index i being the recorded output the slot
\* edge into i names, whatever node edges point at the node; the sources of its node
\* edges are recorded when it runs; and the input count assertion fails only for a
\* node whose inbound slot edges are not as many as its declared input slots.
C22_NodeEdgesCarryNoValue ==
    /\ \A d \in 1..Depth :
           stack[d].pc \in Invoking =>
               /\ Len(stack[d].node_inputs) = SlotEdgesInto(stack[d].graph, stack[d].node_state)
               /\ \A i \in 1..Len(stack[d].node_inputs) :
                      \E k \in 1..Len(InboundEdges(stack[d])) :
                          LET e == InboundEdges(stack[d])[k]
                          IN  /\ e.kind = "SlotEdge" /\ e.input_index = i - 1
                              /\ stack[d].node_inputs[i] =
                                     get(stack[d].node_outputs, e.output_node)[e.output_index + 1]
               /\ \A k \in 1..Len(InboundEdges(stack[d])) :
                      InboundEdges(stack[d])[k].kind = "NodeEdge" =>
                          InboundEdges(stack[d])[k].output_node
                              \in Keys(stack[d].node_outputs)
    /\ result = Panic =>
           \E g \in Nested(root) :
               \E n \in DOMAIN Graph(g).nodes :
                   SlotEdgesInto(g, n) # Len(Graph(g).nodes[n].input_slots)

\* C4 of 'mixed' is run with A4's output alone, B4, the source of its node edge,
\* having recorded an output of its own.
C22_MixedRunsC4 ==
    /\ Running /\ Top.graph = "mixed" /\ Top.pc = "run"
    /\ Top.node_state = "C4"
    /\ Top.node_inputs = << Entity5 >>
    /\ get(Top.node_outputs, "B4") = << Buffer42 >>

\* C23: run invokes run_graph on the root graph with no graph name and no inputs;
\* a root graph whose input node declares an input slot makes run fail with
\* MissingInput for slot 0, under no graph name, without any node being run and
\* without a submit.
C23_RootRunsWithoutInputs ==
    /\ \A j \in 1..Len(log) :
           (log[j].ev = "begin" /\ log[j].depth = 1) =>
               /\ j = 1 /\ log[j].graph = root
               /\ log[j].inputs = << >> /\ log[j].name = None
    /\ \A d \in 1..Depth : d = 1 => (stack[d].inputs = << >> /\ stack[d].graph_name = None)
    /\ (/\ run_state = "done"
        /\ Graph(root).input_node # None
        /\ DeclaredInputs(root) # << >>)
           => /\ result = MissingInput(0, DeclaredInputs(root)[1].name, None)
              /\ \A j \in 1..Len(log) : log[j].ev # "run"
              /\ Len(log) = 2
              /\ submitted = 0

\* run on 'rootin', whose input node declares one slot, has failed.
C23_RootInFails ==
    /\ root = "rootin" /\ run_state = "done"
    /\ result = MissingInput(0, "in", None)
    /\ Last(log).ev = "end" /\ ~ Last(log).ok

\* The popped node of the innermost invocation has all its sources recorded and as
\* many inbound slot edges as declared input slots.
PoppedReady ==
    /\ At("check")
    /\ \A k \in 1..Len(InboundEdges(Top)) :
           InboundEdges(Top)[k].output_node \in Keys(Top.node_outputs)
    /\ SlotEdgesInto(Top.graph, Top.node_state) = Len(NodeOf(Top).input_slots)

\* C24: values routed over slot edges are not compared with the declared type of the
\* destination slot: a popped node whose sources are recorded is run with the
\* recorded values as they are, whatever their types, and nothing is returned; a
\* MismatchedInputSlotType comes only from the seed stage of an invocation whose
\* supplied inputs mismatch its input node's slots, before any node of it is run.
C24_SlotEdgesNotRevalidated ==
    [][ /\ PoppedReady =>
              /\ Len(stack') = Depth /\ stack'[Depth].pc = "run"
              /\ ret' = ret /\ log' = log
              /\ \A k \in 1..Len(InboundEdges(Top)) :
                     LET e == InboundEdges(Top)[k]
                     IN  e.kind = "SlotEdge" =>
                             stack'[Depth].node_inputs[e.input_index + 1] =
                                 get(Top.node_outputs, e.output_node)[e.output_index + 1]
        /\ Outcome.kind = "MismatchedInputSlotType" =>
              \E b \in 1..(Len(log) - 1) :
                  /\ BeginsWithInputNode(b) /\ Mismatches(b) # {}
                  /\ FailedAtSeed(b)
                  /\ \A j \in (b + 1)..Len(log) : log[j].ev = "end"
      ]_vars

\* B of the skewed diamond, whose input slot is declared Entity, is run with the
\* Buffer that A wrote.
C24_BufferIntoEntitySlot ==
    /\ Running /\ Top.graph = "skew" /\ Top.pc = "run"
    /\ Top.node_state = "B"
    /\ NodeOf(Top).input_slots[1].slot_type = "Entity"
    /\ Top.node_inputs = << Buffer42 >>

\* C25 as stated: a sub-graph invocation records into a render context other than
\* the one of the invocation that asked for it.
C25_SubGraphOwnRenderContext ==
    \A d \in 2..Depth : stack[d].render_context # stack[d - 1].render_context

\* C25: every invocation below a run, the root graph's and each sub-graph's at any
\* depth, is handed the one render context that run made, so a sub-graph's nodes
\* record into the same context as the requesting graph's; all of it is one pass:
\* nothing is submitted while any invocation is open and at most one command
\* buffer is submitted by the run.
C25_SubGraphSharesRenderContext ==
    /\ \A d \in 1..Depth : stack[d].render_context = NewRenderContext
    /\ Depth > 0 => submitted = 0
    /\ submitted <= 1

\* A node of a sub-graph two levels down is run while both requesting invocations
\* wait.
C25_NestedSubGraphRecords ==
    /\ Depth = 3 /\ Top.pc = "run" /\ Top.graph = "sub_u"
    /\ stack[1].pc = "await" /\ stack[2].pc = "await"
    /\ stack[3].render_context = stack[1].render_context

\* A step of the compute node that is a call of prepare, a call of update.
PrepareCalled == calls'.prepares # calls.prepares
UpdateCalled == compute_pass' # compute_pass /\ compute_pass'.begun

\* C26: setup_specialized_pipeline runs only in a prepare that finds
\* specialized_pipeline_handle unset, which is the first prepare and no other, so it
\* has run once as soon as prepare was called and never before; a prepare that finds
\* the handle unset does run it and, when it returns, leaves the handle set; a set
\* handle is never changed or cleared by any later call; an update before any
\* prepare finds the handle unset and aborts with nothing set or dispatched.
C26_PipelineSetUpOnce ==
    [][ /\ calls.setups = (IF calls.prepares = 0 THEN 0 ELSE 1)
        /\ calls.prepares = 0 => pass_node.specialized_pipeline_handle = None
        /\ calls'.setups # calls.setups =>
              /\ PrepareCalled
              /\ pass_node.specialized_pipeline_handle = None
              /\ calls.prepares = 0
              /\ calls'.setups = calls.setups + 1
        /\ (PrepareCalled /\ pass_node.specialized_pipeline_handle = None) =>
              calls'.setups = calls.setups + 1
        /\ (PrepareCalled /\ ~ calls'.panic) =>
              pass_node'.specialized_pipeline_handle # None
        /\ pass_node.specialized_pipeline_handle # None =>
              pass_node'.specialized_pipeline_handle = pass_node.specialized_pipeline_handle
        /\ (UpdateCalled /\ calls.prepares = 0) =>
              /\ calls'.panic
              /\ compute_pass'.commands = << >>
      ]_vars

\* The node was prepared twice, set up once, and updated after the second prepare.
C26_PreparedTwiceSetUpOnce ==
    /\ calls.prepares = 2 /\ calls.setups = 1 /\ ~ calls.panic
    /\ pass_node.specialized_pipeline_handle # None
    /\ compute_pass.begun
    /\ compute_pass.commands[1] = SetPipeline(pass_node.specialized_pipeline_handle)

\* The commands for the descriptors of the layout, in layout order, that the set ds
\* holds, each with the bind group of the source from(d).
CommandsFor(ds, from(_)) ==
    LET Matching(d) == d \in ds
        matched == SelectSeq([d \in 1..Len(Layout) |-> d], Matching)
    IN  [k \in 1..Len(matched) |->
            [index |-> Layout[matched[k]].index,
             descriptor_id |-> Layout[matched[k]].id,
             bind_group |-> << from(matched[k]), Layout[matched[k]].id >>]]

\* The commands a prepare collects from world w for the cameras added so far: those
\* of the resource bindings, then those of each added camera that is active, in the
\* order the cameras were added.
RECURSIVE CamerasCommands(_, _)
CamerasCommands(w, cameras) ==
    IF cameras = << >> THEN << >>
    ELSE LET camera(d) == Head(cameras)
         IN  (IF Head(cameras) \in w.active_cameras
              THEN CommandsFor(w.camera_bindings, camera)
              ELSE << >>)
             \o CamerasCommands(w, Tail(cameras))

Collected(w, cameras) ==
    LET source(d) == w.bindings[d]
    IN  CommandsFor({ d \in 1..Len(Layout) : w.bindings[d] # None }, source)
        \o CamerasCommands(w, cameras)

KeepsBehind(p, q) ==
    /\ Len(q) >= Len(p)
    /\ SubSeq(q, Len(q) - Len(p) + 1, Len(q)) = p

\* C28: a deferred node is put at the front of the queue, the end opposite to the
\* back where nodes are popped, behind every entry that waits; from then on the
\* queue of an invocation only loses its back entry or gains entries at the front,
\* so the deferred entry reaches the back, and is popped again, only after every
\* entry that waited at its deferral was popped.  A ready node that is queued is
\* therefore not starved: in the graph "stuck", where Y1 is deferred for ever, W1
\* is run.
C28_DeferredBehindWaiting ==
    /\ [][ /\ PoppedWithMissingSource =>
                 /\ Len(stack') = Depth
                 /\ Head(stack'[Depth].node_queue) = Top.node_state
                 /\ Tail(stack'[Depth].node_queue) = Top.node_queue
           /\ \A d \in 1..Depth :
                  (d <= Len(stack') /\ stack'[d].node_queue # stack[d].node_queue) =>
                      \/ /\ stack[d].pc = "pop" /\ stack[d].node_queue # << >>
                         /\ stack'[d].node_queue = without_back(stack[d].node_queue)
                      \/ /\ stack[d].pc # "pop"
                         /\ KeepsBehind(stack[d].node_queue, stack'[d].node_queue)
         ]_vars
    /\ (root = "stuck") =>
           <>(\E j \in 1..Len(log) : log[j].ev = "run" /\ log[j].node = "W1")

\* D of the skewed diamond is popped for the second time: B, which waited when D was
\* deferred, has run meanwhile and queued D once more.
C28_DeferredPoppedAfterWaiting ==
    /\ Running /\ Top.graph = "skew" /\ Top.pc = "check"
    /\ Top.node_state = "D"
    /\ Top.node_queue = << "D" >>
    /\ Keys(Top.node_outputs) = {"A", "B"}

\* A node of g that is never queued: not the input node, it declares input slots, so
\* it is not seeded, and has no inbound edge, so it is nobody's successor.
NeverQueued(g, s) ==
    /\ s # Graph(g).input_node
    /\ Graph(g).nodes[s].input_slots # << >>
    /\ iter_node_inputs(g, s) = << >>

\* The nodes of g with an inbound edge from a node that is never queued.
Unsatisfiable(g) ==
    { n \in DOMAIN Graph(g).nodes :
        \E k \in 1..Len(iter_node_inputs(g, n)) :
            NeverQueued(g, iter_node_inputs(g, n)[k].output_node) }

\* C29: a node with an inbound edge from a source that is never queued is, whenever
\* it is popped, put back in the queue with nothing returned and nothing recorded;
\* it is never run, and an invocation that seeded such a node never returns Ok.  In
\* the graph "stuck" run never returns anything and Y1 is popped, to be deferred,
\* again and again.
C29_UnsatisfiableDependencyLoops ==
    /\ [][ /\ (At("check") /\ Top.node_state \in Unsatisfiable(Top.graph)) =>
                 /\ Len(stack') = Depth
                 /\ stack'[Depth].pc = "pop"
                 /\ Top.node_state \in Range(stack'[Depth].node_queue)
                 /\ ret' = NoResult /\ run_state' = "called"
                 /\ log' = log
           /\ \A d \in 1..Depth :
                  stack[d].pc \in Invoking =>
                      stack[d].node_state \notin Unsatisfiable(stack[d].graph)
           /\ (At("pop") /\ Len(stack') = Depth - 1 /\ ret'.kind = "Ok") =>
                  \A n \in Unsatisfiable(Top.graph) :
                      Graph(Top.graph).nodes[n].input_slots # << >>
           /\ (root = "stuck") =>
                  (run_state # "done" /\ ret = NoResult /\ result = NoResult)
         ]_vars
    /\ []<>((root = "stuck") => (At("check") /\ Top.node_state = "Y1"))

\* Y1 of "stuck" waits to be popped once more after W1, the only other queued node,
\* has run: nothing is left that could resolve X1.
C29_OnlyStuckNodeLeft ==
    /\ root = "stuck" /\ At("pop")
    /\ Top.node_queue = << "Y1" >>
    /\ Keys(Top.node_outputs) = {"W1"}
    /\ Unsatisfiable("stuck") = {"Y1"}

\* The nodes invocation f has queued so far: those without input slots, and the
\* direct successors of every node with recorded outputs.
EverQueued(f) ==
    { n \in DOMAIN Graph(f.graph).nodes : Graph(f.graph).nodes[n].input_slots = << >> }
    \cup UNION { { iter_node_outputs(f.graph, s)[k].input_node :
                      k \in 1..Len(iter_node_outputs(f.graph, s)) } :
                    s \in Keys(f.node_outputs) }

\* n declares no input slots or is a direct successor of a node with recorded outputs.
Invocable(f, n) ==
    \/ Graph(f.graph).nodes[n].input_slots = << >>
    \/ \E k \in 1..Len(iter_node_inputs(f.graph, n)) :
           iter_node_inputs(f.graph, n)[k].output_node \in Keys(f.node_outputs)

\* C30: a run_graph invocation returns Ok only with an empty queue and with recorded
\* outputs for every node it has queued; every node in a queue, and every node that
\* is invoked, declares no input slots or is a direct successor of a node with
\* recorded outputs; a node that declares input slots and has no inbound edge is
\* never run, and the invocation returns Ok all the same: run on "orphan" returns Ok.
C30_OnlyQueuedNodesEvaluated ==
    [][ /\ (At("pop") /\ Len(stack') = Depth - 1 /\ ret'.kind = "Ok") =>
              /\ Top.node_queue = << >>
              /\ EverQueued(Top) \subseteq Keys(Top.node_outputs)
              /\ \A n \in DOMAIN Graph(Top.graph).nodes :
                     NeverQueued(Top.graph, n) => n \notin Keys(Top.node_outputs)
        /\ \A d \in 1..Depth :
              /\ stack[d].pc \in Invoking => Invocable(stack[d], stack[d].node_state)
              /\ \A k \in 1..Len(stack[d].node_queue) :
                     Invocable(stack[d], stack[d].node_queue[k])
        /\ \A j \in 1..Len(log) :
              log[j].ev = "run" => ~ NeverQueued(log[j].graph, log[j].node)
        /\ (root = "orphan" /\ run_state = "done") => result = OkResult
      ]_vars

\* run on "orphan" has returned Ok: A2 was run, X2 appears nowhere in the log.
C30_OrphanReturnsOk ==
    /\ root = "orphan" /\ run_state = "done" /\ result = OkResult
    /\ NeverQueued("orphan", "X2")
    /\ \E j \in 1..Len(log) : log[j].ev = "run" /\ log[j].node = "A2"
    /\ \A j \in 1..Len(log) : log[j].node # "X2"
    /\ Last(log).ev = "end" /\ Last(log).ok

\* The sub-graph invocations begun for the requests of the node run at log index i.
SubRunsBegun(i) ==
    { j \in (i + 1)..Len(log) : log[j].ev = "begin" /\ log[j].depth = log[i].depth + 1 }

\* C31: a node that returned Ok with an output unset and sub-graph requests buffered
\* has its requests run first: while a request is left the next step enters its
\* sub-graph and nothing is returned; EmptyNodeOutputSlot is returned only by an
\* invocation with no request left, all of whose sub-graph runs returned Ok; when a
\* sub-graph run returns an error, that error is handed on as it is, the invocation
\* ends, and no further request of the node is begun.
C31_SubGraphsBeforeOutputCheck ==
    [][ /\ (At("drain") /\ HasUnset(Top.outputs) /\ Top.run_sub_graphs # << >>) =>
              /\ Len(stack') = Depth + 1
              /\ stack'[Depth + 1].graph =
                     get_sub_graph(Top.graph, Head(Top.run_sub_graphs).name)
              /\ stack'[Depth + 1].inputs = Head(Top.run_sub_graphs).inputs
              /\ ret' = NoResult
        /\ (ret.kind = "None" /\ ret'.kind = "EmptyNodeOutputSlot") =>
              /\ At("drain") /\ Top.run_sub_graphs = << >>
              /\ ret'.node = NodeOf(Top).type_name
        /\ (run_state = "called" /\ Depth > 0 /\ IsErr(ret) /\ Top.pc = "await"
                /\ HasUnset(Top.outputs)) =>
              /\ ret' = ret
              /\ Len(stack') = Depth - 1
              /\ log' = Append(log, EndEvent(Top, FALSE))
        /\ \A i \in 1..Len(log) :
              (LeftUnset(i) /\ log[i].requests # << >>) =>
                  /\ Cardinality(SubRunsBegun(i)) <= Cardinality(SubRunsOk(i)) + 1
                  /\ (run_state = "done"
                          /\ Cardinality(SubRunsOk(i)) < Len(log[i].requests)) =>
                         ~ (/\ result.kind = "EmptyNodeOutputSlot"
                            /\ result.node =
                                   Graph(log[i].graph).nodes[log[i].node].type_name)
      ]_vars

\* N left its output unset and asked for two sub-graph runs: the first returned Ok,
\* a node of the second failed, the run returned that node's error and not
\* EmptyNodeOutputSlot.
C31_SecondSubGraphFailed ==
    /\ run_state = "done" /\ result.kind = "NodeRunError"
    /\ \E i \in 1..Len(log) :
           /\ LeftUnset(i) /\ log[i].node = "N" /\ Len(log[i].requests) = 2
           /\ Cardinality(SubRunsOk(i)) = 1
           /\ Cardinality(SubRunsBegun(i)) = 2
           /\ \E j \in (i + 1)..Len(log) : log[j].ev = "run" /\ ~ log[j].ok

\* Invocation f is past its seed stage and its graph has an input node.
SeededWithInputNode(f) == f.pc # "seed" /\ Graph(f.graph).input_node # None

\* C32: the input node is never run.  In an invocation past its seed stage the
\* recorded output of the input node is the first k supplied inputs in order, k
\* being the number of its declared input slots; when the input node is popped it
\* is skipped as already processed, with nothing run or recorded; a node fed by a
\* slot edge from the input node receives the supplied input at the edge's output
\* index.
C32_InputNodeNeverRun ==
    [][ /\ \A j \in 1..Len(log) :
               log[j].ev = "run" => log[j].node # Graph(log[j].graph).input_node
        /\ \A d \in 1..Depth :
               SeededWithInputNode(stack[d]) =>
                   LET input_node == Graph(stack[d].graph).input_node
                       k == Len(DeclaredInputs(stack[d].graph))
                   IN  /\ stack[d].node_state # input_node
                       /\ contains_key(stack[d].node_outputs, input_node)
                       /\ Len(get(stack[d].node_outputs, input_node)) = k
                       /\ \A i \in 1..k :
                              get(stack[d].node_outputs, input_node)[i] = stack[d].inputs[i]
                       /\ stack[d].pc \in Invoking =>
                              \A e \in 1..Len(InboundEdges(stack[d])) :
                                  LET edge == InboundEdges(stack[d])[e]
                                  IN  (edge.kind = "SlotEdge" /\ edge.output_node = input_node)
                                          => stack[d].node_inputs[edge.input_index + 1] =
                                                 stack[d].inputs[edge.output_index + 1]
        /\ (At("pop") /\ Top.node_queue # << >>
                /\ back(Top.node_queue) = Graph(Top.graph).input_node) =>
               /\ stack' = SetTop([Top EXCEPT !.node_queue = without_back(@)])
               /\ log' = log /\ ret' = ret
      ]_vars

\* K of sub-graph T is run with the Entity and the Buffer that were supplied first;
\* the third supplied value is recorded nowhere.
C32_FirstInputsDelivered ==
    /\ Depth = 2 /\ Top.graph = "sub_t" /\ Top.pc = "run" /\ Top.node_state = "K"
    /\ Top.inputs = << Entity5, Buffer42, Buffer42 >>
    /\ get(Top.node_outputs, "J") = << Entity5, Buffer42 >>
    /\ Top.node_inputs = << Entity5, Buffer42 >>

\* The first k supplied inputs of invocation f are there and have the declared
\* types, k being the number of input slots the input node declares.
FirstInputsMatch(f) ==
    /\ Len(f.inputs) >= Len(DeclaredInputs(f.graph))
    /\ \A i \in 1..Len(DeclaredInputs(f.graph)) :
           f.inputs[i].ty = DeclaredInputs(f.graph)[i].slot_type

\* C33: supplied inputs beyond the declared slots of the input node are ignored:
\* when the first k supplied values have the declared types the seed stage passes
\* however many values follow, recording those k only; an invocation of a graph
\* without input node passes its seed stage whatever it was supplied, with nothing
\* recorded, so it cannot end in MissingInput or MismatchedInputSlotType of its own.
C33_SurplusInputsIgnored ==
    [][ /\ (At("seed") /\ Graph(Top.graph).input_node # None /\ FirstInputsMatch(Top)) =>
              /\ Len(stack') = Depth /\ stack'[Depth].pc = "pop"
              /\ ret' = NoResult /\ log' = log
              /\ stack'[Depth].node_outputs =
                     insert(EmptyMap, Graph(Top.graph).input_node,
                            SubSeq(Top.inputs, 1, Len(DeclaredInputs(Top.graph))))
        /\ (At("seed") /\ Graph(Top.graph).input_node = None) =>
              /\ Len(stack') = Depth /\ stack'[Depth].pc = "pop"
              /\ ret' = NoResult /\ log' = log
              /\ stack'[Depth].node_outputs = EmptyMap
        /\ \A b \in 1..(Len(log) - 1) :
              (log[b].ev = "begin" /\ Graph(log[b].graph).input_node = None) =>
                  ~ FailedAtSeed(b)
      ]_vars

\* Sub-graph T was called with three inputs for its two slots and returned Ok;
\* sub-graph U, which has no input node, was called with an input and runs Z.
C33_SurplusAndUnusedInputs ==
    /\ Depth = 3 /\ Top.graph = "sub_u" /\ Top.pc = "run" /\ Top.node_state = "Z"
    /\ Top.inputs = << Entity5 >>
    /\ Top.node_outputs = EmptyMap
    /\ \E b \in 1..Len(log) :
           /\ log[b].ev = "begin" /\ log[b].graph = "sub_t" /\ Len(log[b].inputs) = 3
           /\ \E e \in (b + 1)..Len(log) :
                  log[e].ev = "end" /\ log[e].graph = "sub_t" /\ log[e].ok

\* The indices of the declared input slots of invocation f that were supplied no
\* value or a value of another type.
FailingSlots(f) ==
    { i \in 0..(Len(DeclaredInputs(f.graph)) - 1) :
        \/ i >= Len(f.inputs)
        \/ f.inputs[i + 1].ty # DeclaredInputs(f.graph)[i + 1].slot_type }

\* C34: the seed stage reports the lowest failing slot alone: when some declared
\* slot of the input node is missing or mismatched, the invocation returns, for the
\* lowest such index, MismatchedInputSlotType if a value was supplied there and
\* MissingInput if none was, whatever is wrong at the higher indices; so a mismatch
\* at index i with nothing supplied for j > i is MismatchedInputSlotType for i.
C34_LowestFailingSlotReported ==
    [][ (At("seed") /\ Graph(Top.graph).input_node # None /\ FailingSlots(Top) # {}) =>
            LET i == CHOOSE i \in FailingSlots(Top) : \A j \in FailingSlots(Top) : i <= j
                slot == DeclaredInputs(Top.graph)[i + 1]
            IN  /\ Len(stack') = Depth - 1
                /\ ret'.slot_index = i
                /\ i < Len(Top.inputs) =>
                       ret' = MismatchedInputSlotType(i, slot.name, slot.slot_type,
                                                      Top.inputs[i + 1].ty)
                /\ i >= Len(Top.inputs) =>
                       ret' = MissingInput(i, slot.name, Top.graph_name)
      ]_vars

\* Sub-graph T, which declares an Entity and a Buffer slot, was called with one
\* Buffer: slot 0 is mismatched, slot 1 missing, and MismatchedInputSlotType for
\* slot 0 is returned.
C34_MismatchBeforeMissing ==
    /\ ret = MismatchedInputSlotType(0, "e", "Entity", "Buffer")
    /\ Len(log) >= 2 /\ Last(log).ev = "end" /\ ~ Last(log).ok
    /\ log[Len(log) - 1].ev = "begin" /\ log[Len(log) - 1].graph = "sub_t"
    /\ log[Len(log) - 1].inputs = << Buffer42 >>

\* The step from node_outputs old to new of invocation d is the seed stage recording
\* the input node, or the recording of the node the invocation has run.
AddedBySeed(d, old, new) ==
    /\ d = Depth /\ At("seed") /\ old = EmptyMap
    /\ Graph(Top.graph).input_node # None
    /\ new = { << Graph(Top.graph).input_node,
                  SubSeq(Top.inputs, 1, Len(DeclaredInputs(Top.graph))) >> }

AddedByNode(d, old, new) ==
    /\ d = Depth /\ At("drain") /\ Top.run_sub_graphs = << >>
    /\ ~ HasUnset(Top.outputs)
    /\ Top.node_state \notin Keys(old)
    /\ new = old \cup { << Top.node_state, Top.outputs >> }

\* C35: the node_outputs of an invocation only grows while the invocation is open:
\* every entry stays, with the same values, through every step; a step adds at most
\* one entry, and only as the seed stage recording the input node or as the
\* recording of the node just run, once its sub-graph requests are drained and all
\* its outputs are set; the node being handled has no entry yet, so nothing is
\* overwritten, and no node has two entries.
C35_NodeOutputsOnlyGrow ==
    [][ \A d \in 1..Depth :
            /\ Cardinality(Keys(stack[d].node_outputs)) = Cardinality(stack[d].node_outputs)
            /\ stack[d].pc \in Invoking \cup {"check"} =>
                   stack[d].node_state \notin Keys(stack[d].node_outputs)
            /\ d <= Len(stack') =>
                   LET old == stack[d].node_outputs
                       new == stack'[d].node_outputs
                   IN  /\ old \subseteq new
                       /\ new # old => AddedBySeed(d, old, new) \/ AddedByNode(d, old, new)
      ]_vars

\* The diamond has recorded A, B, C and D, one after the other, and the second
\* queue entry of D is still to be popped.
C35_DiamondAllRecorded ==
    /\ Running /\ Top.graph = "diamond" /\ Top.pc = "pop"
    /\ Keys(Top.node_outputs) = {"A", "B", "C", "D"}
    /\ Top.node_queue = << "D" >>

\* The nesting depth of a graph: 1 for a graph without sub-graphs, else one more than
\* the deepest of the sub-graphs it owns.
RECURSIVE NestingDepth(_)
NestingDepth(g) ==
    LET below == { NestingDepth(Catalogue[g].sub_graphs[n]) :
                       n \in DOMAIN Catalogue[g].sub_graphs }
    IN  IF below = {} THEN 1
        ELSE 1 + CHOOSE m \in below : \A k \in below : k <= m

\* C36: the active run_graph invocations start at the root graph, and each further
\* one runs the sub-graph that the graph of the invocation below it owns under the
\* requested name, a graph strictly nested in that graph; no graph has two active
\* invocations, and there are never more invocations than the root graph's nesting
\* depth.
C36_RecursionFollowsNesting ==
    /\ Depth >= 1 => stack[1].graph = root
    /\ \A d \in 2..Depth :
           /\ stack[d - 1].pc = "await"
           /\ stack[d].graph_name \in DOMAIN Graph(stack[d - 1].graph).sub_graphs
           /\ stack[d].graph = get_sub_graph(stack[d - 1].graph, stack[d].graph_name)
           /\ stack[d].graph \in Nested(stack[d - 1].graph) \ {stack[d - 1].graph}
    /\ \A d, e \in 1..Depth : d # e => stack[d].graph # stack[e].graph
    /\ Depth <= NestingDepth(root)

\* Y, a node of the sub-graph S of main, has asked for U, a name main owns as well:
\* the third invocation runs the U owned by S, at the root graph's nesting depth.
C36_NestedRequestResolvedInOwner ==
    /\ Depth = 3 /\ Depth = NestingDepth(root)
    /\ stack[2].graph = "sub_s" /\ stack[2].node_state = "Y"
    /\ Top.graph_name = "U" /\ Top.graph = "sub_u"
    /\ get_sub_graph(root, "U") # Top.graph

====
